---- MODULE Spec2Model ----
(***************************************************************************)
(* A model of the Python <-> Scratch 3.0 transpiler of                     *)
(* src/src/scratch/transpiler.py: the forward compiler ScratchTranspiler   *)
(* (block graph builder, expression / condition compiler, statement        *)
(* compiler, two-pass custom procedure resolver, project assembler) and    *)
(* the part of the reverse compiler ScratchToPython that renders scripts.  *)
(*                                                                         *)
(* Conventions.  Block ids, variable ids, argument ids and broadcast ids   *)
(* are the fresh tokens of _generate_id: the naturals 1, 2, ... in         *)
(* allocation order (nid is the next one); None is Null.  A Python value   *)
(* is a record [ty, n, s]: a number, a string, or one of the two marker    *)
(* tuples of _extract_value.  A proc-code "name %s ... %s" is the record   *)
(* [name, n] with n placeholders.                                          *)
(* The x / y layout coordinates of top-level blocks are left out.          *)
(***************************************************************************)
EXTENDS Integers, Sequences, FiniteSets, TLC

Null == 0

\* ------------------------------------------------------------- values
NumV(n) == [ty |-> "num", n |-> n, s |-> ""]
BoolV(b) == [ty |-> "bool", n |-> IF b THEN 1 ELSE 0, s |-> ""]
StrV(s) == [ty |-> "str", n |-> 0, s |-> s]
VarMarker(name) == [ty |-> "var", n |-> 0, s |-> name]
BlockMarker(id) == [ty |-> "block", n |-> id, s |-> ""]

IsString(v) == v.ty = "str"

\* A Python dict: a function; Put is d[k] = v.
EmptyMap == <<>>
Put(f, k, v) == [z \in (DOMAIN f) \cup {k} |-> IF z = k THEN v ELSE f[z]]
Has(f, k) == k \in DOMAIN f

\* Keys of a block's inputs: a slot name, or (procedures_call) an argument id.
Slot(name) == [slot |-> name, arg |-> Null]
ArgKey(id) == [slot |-> "", arg |-> id]

\* Scratch literals [code, text] and [11, name, broadcast id]; NoLit: none.
\* str(v): the text of a Python value.
PyStr(v) ==
  CASE v.ty = "num" -> ToString(v.n)
    [] v.ty = "bool" -> (IF v.n = 1 THEN "True" ELSE "False")
    [] v.ty = "str" -> v.s
    [] v.ty = "var" -> "('__VAR__', '" \o v.s \o "')"
    [] v.n = Null -> "('__BLOCK__', None)"
    [] OTHER -> "('__BLOCK__', '" \o ToString(v.n) \o "')"

NoLit == [code |-> 0, s |-> "", id |-> Null]
Lit(code, v) == [code |-> code, s |-> PyStr(v), id |-> Null]
BroadcastLit(name, id) == [code |-> 11, s |-> name, id |-> id]

\* Inputs [1, literal], [1|2, block id], [3, block id, [4, "0"]].
LitInput(l) == [shadow |-> 1, block |-> Null, lit |-> l]
RefInput(kind, id) == [shadow |-> kind, block |-> id, lit |-> NoLit]
ObscuredInput(id) == [shadow |-> 3, block |-> id, lit |-> Lit(4, NumV(0))]

\* Fields [value, id or None].
Field(v, id) == [v |-> v, id |-> id]

NoProccode == [name |-> "", n |-> 0]
NoMutation == [proccode |-> NoProccode, argumentids |-> <<>>,
               argumentnames |-> <<>>, has |-> FALSE, isCall |-> FALSE]

\* ------------------------------------------------------- syntax trees
\* Expression nodes of the ast module.
ENum(n) == [k |-> "Constant", v |-> NumV(n)]
EStr(s) == [k |-> "Constant", v |-> StrV(s)]
ETrue == [k |-> "True"]
EFalse == [k |-> "False"]
EName(id) == [k |-> "Name", id |-> id]
EUnary(op, e) == [k |-> "UnaryOp", op |-> op, operand |-> e]
EBinOp(op, l, r) == [k |-> "BinOp", op |-> op, left |-> l, right |-> r]
ECompare(op, l, r) == [k |-> "Compare", op |-> op, left |-> l, right |-> r]
EBoolOp(op, vs) == [k |-> "BoolOp", op |-> op, values |-> vs]
ECall(f, as) == [k |-> "Call", func |-> f, args |-> as]

\* Statement nodes.
SAssign(x, e) == [k |-> "Assign", target |-> x, value |-> e]
SAugAssign(x, op, e) == [k |-> "AugAssign", target |-> x, op |-> op, value |-> e]
SFor(it, body) == [k |-> "For", iter |-> it, body |-> body]
SWhile(test, body) == [k |-> "While", test |-> test, body |-> body]
SIf(test, body, orelse) == [k |-> "If", test |-> test, body |-> body, orelse |-> orelse]
SExpr(e) == [k |-> "Expr", value |-> e]
SPass == [k |-> "Pass"]

\* A function name is prefix + rest, prefix the longest of the prefixes that
\* _visit_sprite_method and visit_ClassDef test with startswith.
FName(prefix, rest) == [prefix |-> prefix, rest |-> rest]
FullName(name) == name.prefix \o name.rest
\* args: the parameter names other than self.
SFunctionDef(name, args, body) == [k |-> "FunctionDef", name |-> name, args |-> args,
                                  body |-> body]
SClassDef(name, body) == [k |-> "ClassDef", name |-> name, body |-> body]

\* ------------------------------------------------ the transpiler object
\* ScratchTranspiler.transpile resets every field to this.  raised: an
\* exception has ended the compilation.  after_forever is a history variable,
\* not a field of the object: the ids allocated while compiling a statement
\* that follows a `while True:` loop in the same statement list.
FreshTranspiler ==
  [blocks |-> EmptyMap, prev |-> Null, hat |-> Null,
   variable_ids |-> EmptyMap, variable_definitions |-> EmptyMap,
   list_ids |-> EmptyMap, list_definitions |-> EmptyMap,
   broadcast_ids |-> EmptyMap, custom_blocks |-> EmptyMap,
   proc_args |-> EmptyMap, sounds_used |-> {}, targets |-> <<>>,
   lists_of |-> 0, nid |-> 1, raised |-> FALSE, after_forever |-> {}]

Ret(t, r) == [t |-> t, r |-> r]

\* A generator that hands out the same token again.
StaleId(t) == Ret(t, t.nid)

\* _generate_id: a token no earlier call returned.
GenerateId(t) == Ret([t EXCEPT !.nid = @ + 1], t.nid)

Block(opcode, parent, inputs, fields, shadow, top) ==
  [opcode |-> opcode, next |-> Null, parent |-> parent, inputs |-> inputs,
   fields |-> fields, shadow |-> shadow, topLevel |-> top, mutation |-> NoMutation]

\* self.blocks[g.r] = blk, for the id g.r just generated.
StoreBlock(g, blk) == Ret([g.t EXCEPT !.blocks = Put(@, g.r, blk)], g.r)

\* _create_block
CreateBlock(t, opcode, inputs, top_level, is_hat, is_reporter) ==
  LET link == (~is_reporter) /\ t.prev # Null
      Create(g) ==
        Ret([g.t EXCEPT !.blocks = Put(IF link THEN [@ EXCEPT ![t.prev].next = g.r] ELSE @,
                                       g.r,
                                       Block(opcode, IF link THEN t.prev ELSE Null, inputs,
                                             EmptyMap, FALSE, top_level)),
                        !.prev = IF is_reporter THEN @ ELSE g.r,
                        !.hat = IF (~is_reporter) /\ is_hat THEN g.r ELSE @],
            g.r)
  IN Create(GenerateId(t))

\* The assignments self.blocks[id][...] = ... of the visitors.
SetParent(t, id, p) == [t EXCEPT !.blocks[id].parent = p]
SetInputs(t, id, ins) == [t EXCEPT !.blocks[id].inputs = ins]
SetInput(t, id, key, in) == [t EXCEPT !.blocks[id].inputs = Put(@, key, in)]
SetField(t, id, name, f) == [t EXCEPT !.blocks[id].fields = Put(@, name, f)]
SetFields(t, id, fs) == [t EXCEPT !.blocks[id].fields = fs]

\* self.blocks[id]["inputs"] = i.r, the inputs i.r just built; r is id.
WithInputs(i, id) == Ret(SetInputs(i.t, id, i.r), id)
\* self.blocks[id]["inputs"] = {slot: i.r}, the input i.r just built; r is id.
WithInput(i, id, slot) == Ret(SetInputs(i.t, id, Put(EmptyMap, Slot(slot), i.r)), id)

\* _get_or_create_variable
GetOrCreateVariable(t, var_name, initial_value) ==
  LET Define(g) ==
        Ret([g.t EXCEPT !.variable_ids = Put(@, var_name, g.r),
                        !.variable_definitions =
                           Put(@, g.r, [name |-> var_name, value |-> initial_value])],
            g.r)
  IN IF Has(t.variable_ids, var_name) THEN Ret(t, t.variable_ids[var_name])
     ELSE Define(GenerateId(t))

\* _get_or_create_list.  self.list_definitions is not restored by
\* visit_ClassDef, so after a class it is still the dict object held by that
\* class's target (lists_of is its position in targets, 0 when none).
GetOrCreateList(t, name) ==
  LET Define(g) ==
        Ret([g.t EXCEPT !.list_ids = Put(@, name, g.r),
                        !.list_definitions = Put(@, g.r, [name |-> name, items |-> <<>>]),
                        !.targets =
                           IF t.lists_of # 0
                           THEN [@ EXCEPT ![t.lists_of].lists =
                                   Put(t.list_definitions, g.r,
                                       [name |-> name, items |-> <<>>])]
                           ELSE @],
            g.r)
  IN IF Has(t.list_ids, name) THEN Ret(t, t.list_ids[name]) ELSE Define(GenerateId(t))

\* A _get_or_create_broadcast that never looks the name up.
NewBroadcast(t, name) ==
  LET Define(g) == Ret([g.t EXCEPT !.broadcast_ids = Put(@, name, g.r)], g.r)
  IN Define(GenerateId(t))

\* _get_or_create_broadcast
GetOrCreateBroadcast(t, name) ==
  LET Define(g) == Ret([g.t EXCEPT !.broadcast_ids = Put(@, name, g.r)], g.r)
  IN IF Has(t.broadcast_ids, name) THEN Ret(t, t.broadcast_ids[name])
     ELSE Define(GenerateId(t))

\* _create_variable_reporter
CreateVariableReporter(t, var_name) ==
  LET Report(v) ==
        StoreBlock(GenerateId(v.t),
                   Block("data_variable", Null, EmptyMap,
                         Put(EmptyMap, "VARIABLE", Field(StrV(var_name), v.r)), FALSE, FALSE))
  IN Report(GetOrCreateVariable(t, var_name, NumV(0)))

\* _create_menu_block
CreateMenuBlock(t, menu_opcode, field_name, value, parent_id) ==
  StoreBlock(GenerateId(t),
             Block(menu_opcode, parent_id, EmptyMap,
                   Put(EmptyMap, field_name, Field(value, Null)), TRUE, FALSE))

\* _create_literal_input: r is the one-entry dict {input_name: input}, given
\* as the input itself.  self.blocks[None] raises KeyError.
CreateLiteralInput(t, value, parent_block_id) ==
  LET Obscure(c) ==
        Ret(IF parent_block_id # Null THEN SetParent(c.t, c.r, parent_block_id) ELSE c.t,
            ObscuredInput(c.r))
  IN CASE value.ty = "var" -> Obscure(CreateVariableReporter(t, value.s))
       [] value.ty = "block" ->
            IF parent_block_id # Null
            THEN IF Has(t.blocks, value.n)
                 THEN Ret(SetParent(t, value.n, parent_block_id), ObscuredInput(value.n))
                 ELSE Ret([t EXCEPT !.raised = TRUE], ObscuredInput(value.n))
            ELSE Ret(t, ObscuredInput(value.n))
       [] value.ty \in {"num", "bool"} -> Ret(t, LitInput(Lit(4, value)))
       [] OTHER -> Ret(t, LitInput(Lit(10, value)))

\* ------------------------------------------- expression compiler
IsIntOrFloat(v) == v.ty \in {"num", "bool"}
IsMarker(v) == v.ty \in {"var", "block"}

\* BINOP_MAP and COMPARE_MAP
BINOP_MAP == [Add |-> "operator_add", Sub |-> "operator_subtract",
              Mult |-> "operator_multiply", Div |-> "operator_divide",
              Mod |-> "operator_mod", FloorDiv |-> "operator_divide"]
COMPARE_MAP == [Gt |-> "operator_gt", Lt |-> "operator_lt", Eq |-> "operator_equals"]

\* Visit is NodeVisitor.visit: the dispatch on the class of the node to the
\* visit_* methods, defined after them.  A call self.visit_X(node) on a node
\* of class X is written Visit(t, node).
RECURSIVE Visit(_, _)
RECURSIVE ExtractValue(_, _)
RECURSIVE ProcessCondition(_, _)
RECURSIVE BoolOpFold(_, _, _, _, _)

\* The two inputs {slot1: left, slot2: right} built for a two-operand block.
TwoInputs(t, left_value, slot1, right_value, slot2, block_id) ==
  LET Both(a, b) == Ret(b.t, Put(Put(EmptyMap, Slot(slot1), a.r), Slot(slot2), b.r))
      Right(a) == Both(a, CreateLiteralInput(a.t, right_value, block_id))
  IN Right(CreateLiteralInput(t, left_value, block_id))

\* A reporter block created for two operand values already extracted.
Binary(t, opcode, left_value, slot1, right_value, slot2) ==
  LET Fill(c) == WithInputs(TwoInputs(c.t, left_value, slot1, right_value, slot2, c.r), c.r)
  IN Fill(CreateBlock(t, opcode, EmptyMap, FALSE, FALSE, TRUE))

\* if id: self.blocks[n.r]["inputs"][slot] = [2, id];
\*        self.blocks[id]["parent"] = n.r
SetBlockInput(n, slot, id) ==
  IF id # Null
  THEN Ret(SetParent(SetInput(n.t, n.r, Slot(slot), RefInput(2, id)), id, n.r), n.r)
  ELSE n

\* The NOT-wrapped comparison with its two operands exchanged.
NotOverExchanged(t, inner_opcode, left_value, right_value) ==
  LET Negate(c) ==
        SetBlockInput(CreateBlock(c.t, "operator_not", EmptyMap, FALSE, FALSE, TRUE),
                   "OPERAND", c.r)
  IN Negate(Binary(t, inner_opcode, right_value, "OPERAND1", left_value, "OPERAND2"))

\* The three NOT-wrapped branches of visit_Compare.
NotOver(t, inner_opcode, left_value, right_value) ==
  LET Negate(c) ==
        SetBlockInput(CreateBlock(c.t, "operator_not", EmptyMap, FALSE, FALSE, TRUE),
                   "OPERAND", c.r)
  IN Negate(Binary(t, inner_opcode, left_value, "OPERAND1", right_value, "OPERAND2"))

\* visit_Compare (node.ops[0], node.left, node.comparators[0])
VisitCompare(t, node) ==
  LET Build(l, r) ==
        CASE node.op = "NotEq" -> NotOver(r.t, "operator_equals", l.r, r.r)
          [] node.op = "GtE" -> NotOver(r.t, "operator_lt", l.r, r.r)
          [] node.op = "LtE" -> NotOver(r.t, "operator_gt", l.r, r.r)
          [] node.op \in DOMAIN COMPARE_MAP ->
               Binary(r.t, COMPARE_MAP[node.op], l.r, "OPERAND1", r.r, "OPERAND2")
          [] OTHER -> Ret(r.t, Null)
      Right(l) == Build(l, ExtractValue(l.t, node.right))
  IN Right(ExtractValue(t, node.left))

\* visit_BinOp
VisitBinOp(t, node) ==
  LET Build(l, r) == Binary(r.t, BINOP_MAP[node.op], l.r, "NUM1", r.r, "NUM2")
      Right(l) == Build(l, ExtractValue(l.t, node.right))
  IN IF node.op \notin DOMAIN BINOP_MAP THEN Ret(t, Null)
     ELSE Right(ExtractValue(t, node.left))

\* The loop of visit_BoolOp: i runs from len(values) - 2 down to 0 (1-based here).
BoolOpFold(t, opcode, values, i, right_id) ==
  LET Join(l) ==
        SetBlockInput(SetBlockInput(CreateBlock(l.t, opcode, EmptyMap, FALSE, FALSE, TRUE),
                              "OPERAND1", l.r),
                   "OPERAND2", right_id)
      Continue(c) == BoolOpFold(c.t, opcode, values, i - 1, c.r)
  IN IF i < 1 THEN Ret(t, right_id)
     ELSE Continue(Join(ProcessCondition(t, values[i])))

\* A fold of the chain from the left: a and b and c as AND(AND(a, b), c).
RECURSIVE LeftFold(_, _, _, _, _)
LeftFold(t, opcode, values, i, left_id) ==
  LET Join(r) ==
        SetBlockInput(SetBlockInput(CreateBlock(r.t, opcode, EmptyMap, FALSE, FALSE, TRUE),
                              "OPERAND1", left_id),
                   "OPERAND2", r.r)
      Continue(c) == LeftFold(c.t, opcode, values, i + 1, c.r)
  IN IF i > Len(values) THEN Ret(t, left_id)
     ELSE Continue(Join(ProcessCondition(t, values[i])))

VisitBoolOpLeft(t, node) ==
  LET opcode == IF node.op = "And" THEN "operator_and" ELSE "operator_or"
      Fold(first) == LeftFold(first.t, opcode, node.values, 2, first.r)
  IN IF node.op \notin {"And", "Or"} \/ Len(node.values) < 2 THEN Ret(t, Null)
     ELSE Fold(ProcessCondition(t, node.values[1]))

\* visit_BoolOp
VisitBoolOp(t, node) ==
  LET opcode == IF node.op = "And" THEN "operator_and" ELSE "operator_or"
      Fold(last) == BoolOpFold(last.t, opcode, node.values, Len(node.values) - 1, last.r)
  IN IF node.op \notin {"And", "Or"} \/ Len(node.values) < 2 THEN Ret(t, Null)
     ELSE Fold(ProcessCondition(t, node.values[Len(node.values)]))

\* The tautologies "1" = "1" and "1" = "0" that stand for True and False.
TautologyBlock(t, second) ==
  LET Fill(c) ==
        Ret(SetInput(SetInput(c.t, c.r, Slot("OPERAND1"), LitInput(Lit(10, StrV("1")))),
                     c.r, Slot("OPERAND2"), LitInput(Lit(10, StrV(second)))),
            c.r)
  IN Fill(CreateBlock(t, "operator_equals", EmptyMap, FALSE, FALSE, TRUE))

\* _process_condition
ProcessCondition(t, node) ==
  LET Negate(o) ==
        SetBlockInput(CreateBlock(o.t, "operator_not", EmptyMap, FALSE, FALSE, TRUE),
                   "OPERAND", o.r)
  IN CASE node.k \in {"Compare", "BoolOp", "Call"} -> Visit(t, node)
       [] node.k = "UnaryOp" /\ node.op = "Not" -> Negate(ProcessCondition(t, node.operand))
       [] node.k = "True" -> TautologyBlock(t, "1")
       [] node.k = "False" -> TautologyBlock(t, "0")
       [] OTHER -> Ret(t, Null)

\* _extract_value
ExtractValue(t, node) ==
  LET Minus(o) == Ret(o.t, IF IsIntOrFloat(o.r) THEN NumV(0 - o.r.n) ELSE NumV(0))
      Marker(b) == Ret(b.t, BlockMarker(b.r))
      MarkerOrZero(c) == Ret(c.t, IF c.r # Null THEN BlockMarker(c.r) ELSE NumV(0))
  IN CASE node.k = "Constant" -> Ret(t, node.v)
       [] node.k = "True" -> Ret(t, BoolV(TRUE))
       [] node.k = "False" -> Ret(t, BoolV(FALSE))
       [] node.k = "UnaryOp" ->
            IF node.op = "USub" THEN Minus(ExtractValue(t, node.operand))
            ELSE IF node.op = "UAdd" THEN ExtractValue(t, node.operand)
            ELSE Ret(t, NumV(0))
       [] node.k = "Name" -> Ret(t, VarMarker(node.id))
       [] node.k = "BinOp" -> Marker(Visit(t, node))
       [] node.k = "Call" -> MarkerOrZero(Visit(t, node))
       [] OTHER -> Ret(t, NumV(0))

\* ------------------------------------------------ function call compiler
FUNCTION_MAP ==
  [move |-> [opcode |-> "motion_movesteps", input |-> "STEPS"],
   turn_right |-> [opcode |-> "motion_turnright", input |-> "DEGREES"],
   turn_left |-> [opcode |-> "motion_turnleft", input |-> "DEGREES"],
   point_in_direction |-> [opcode |-> "motion_pointindirection", input |-> "DIRECTION"],
   change_x |-> [opcode |-> "motion_changexby", input |-> "DX"],
   set_x |-> [opcode |-> "motion_setx", input |-> "X"],
   change_y |-> [opcode |-> "motion_changeyby", input |-> "DY"],
   set_y |-> [opcode |-> "motion_sety", input |-> "Y"],
   say |-> [opcode |-> "looks_say", input |-> "MESSAGE"],
   think |-> [opcode |-> "looks_think", input |-> "MESSAGE"],
   change_size |-> [opcode |-> "looks_changesizeby", input |-> "CHANGE"],
   set_size |-> [opcode |-> "looks_setsizeto", input |-> "SIZE"],
   wait |-> [opcode |-> "control_wait", input |-> "DURATION"],
   change_volume |-> [opcode |-> "sound_changevolumeby", input |-> "VOLUME"],
   set_volume |-> [opcode |-> "sound_setvolumeto", input |-> "VOLUME"],
   change_tempo |-> [opcode |-> "music_changeTempo", input |-> "TEMPO"],
   set_tempo |-> [opcode |-> "music_setTempo", input |-> "TEMPO"],
   ask |-> [opcode |-> "sensing_askandwait", input |-> "QUESTION"],
   set_drag_mode |-> [opcode |-> "sensing_setdragmode", input |-> "DRAG_MODE"]]

MULTI_ARG_MAP ==
  [go_to_xy |-> [opcode |-> "motion_gotoxy", inputs |-> <<"X", "Y">>],
   glide_to_xy |-> [opcode |-> "motion_glidesecstoxy", inputs |-> <<"SECS", "X", "Y">>],
   say_for_secs |-> [opcode |-> "looks_sayforsecs", inputs |-> <<"MESSAGE", "SECS">>],
   think_for_secs |-> [opcode |-> "looks_thinkforsecs", inputs |-> <<"MESSAGE", "SECS">>],
   create_clone_of |-> [opcode |-> "control_create_clone_of", inputs |-> <<"CLONE_OPTION">>],
   reset_timer |-> [opcode |-> "sensing_resettimer", inputs |-> <<>>]]

FIELD_INPUT_MAP ==
  [change_effect |-> [opcode |-> "looks_changeeffectby", field |-> "EFFECT", input |-> "CHANGE"],
   set_effect |-> [opcode |-> "looks_seteffectto", field |-> "EFFECT", input |-> "VALUE"],
   change_layer |-> [opcode |-> "looks_goforwardbackwardlayers",
                     field |-> "FORWARD_BACKWARD", input |-> "NUM"],
   change_sound_effect |-> [opcode |-> "sound_changeeffectby", field |-> "EFFECT",
                            input |-> "VALUE"],
   set_sound_effect |-> [opcode |-> "sound_seteffectto", field |-> "EFFECT", input |-> "VALUE"]]

NO_ARG_MAP ==
  [if_on_edge_bounce |-> "motion_ifonedgebounce", next_costume |-> "looks_nextcostume",
   next_backdrop |-> "looks_nextbackdrop", clear_effects |-> "looks_cleargraphiceffects",
   show |-> "looks_show", hide |-> "looks_hide",
   delete_this_clone |-> "control_delete_this_clone",
   stop_all_sounds |-> "sound_stopallsounds", clear_sound_effects |-> "sound_cleareffects",
   reset_timer |-> "sensing_resettimer"]

MENU_FUNCTION_MAP ==
  [go_to |-> [opcode |-> "motion_goto", input |-> "TO", menu |-> "motion_goto_menu",
              field |-> "TO"],
   glide_to |-> [opcode |-> "motion_glideto", input |-> "TO", menu |-> "motion_glideto_menu",
                 field |-> "TO"],
   point_towards |-> [opcode |-> "motion_pointtowards", input |-> "TOWARDS",
                      menu |-> "motion_pointtowards_menu", field |-> "TOWARDS"],
   switch_costume |-> [opcode |-> "looks_switchcostumeto", input |-> "COSTUME",
                       menu |-> "looks_costume", field |-> "COSTUME"],
   switch_backdrop |-> [opcode |-> "looks_switchbackdropto", input |-> "BACKDROP",
                        menu |-> "looks_backdrops", field |-> "BACKDROP"],
   play_sound |-> [opcode |-> "sound_play", input |-> "SOUND_MENU",
                   menu |-> "sound_sounds_menu", field |-> "SOUND_MENU"],
   start_sound |-> [opcode |-> "sound_play", input |-> "SOUND_MENU",
                    menu |-> "sound_sounds_menu", field |-> "SOUND_MENU"],
   play_sound_until_done |-> [opcode |-> "sound_playuntildone", input |-> "SOUND_MENU",
                              menu |-> "sound_sounds_menu", field |-> "SOUND_MENU"],
   create_clone |-> [opcode |-> "control_create_clone_of", input |-> "CLONE_OPTION",
                     menu |-> "control_create_clone_of_menu", field |-> "CLONE_OPTION"]]

FIELD_FUNCTION_MAP ==
  [set_rotation_style |-> [opcode |-> "motion_setrotationstyle", field |-> "STYLE"],
   go_to_layer |-> [opcode |-> "looks_gotofrontback", field |-> "FRONT_BACK"],
   stop |-> [opcode |-> "control_stop", field |-> "STOP_OPTION"]]

REPORTER_MAP ==
  [x_position |-> "motion_xposition", y_position |-> "motion_yposition",
   direction |-> "motion_direction", size |-> "looks_size", mouse_x |-> "sensing_mousex",
   mouse_y |-> "sensing_mousey", loudness |-> "sensing_loudness", timer |-> "sensing_timer",
   days_since_2000 |-> "sensing_dayssince2000", username |-> "sensing_username",
   answer |-> "sensing_answer", volume |-> "sound_volume"]

BOOLEAN_REPORTER_MAP == [mouse_down |-> "sensing_mousedown"]

FIELD_REPORTER_MAP ==
  [costume_number |-> [opcode |-> "looks_costumenumbername", field |-> "NUMBER_NAME",
                       value |-> "number"],
   costume_name |-> [opcode |-> "looks_costumenumbername", field |-> "NUMBER_NAME",
                     value |-> "name"],
   backdrop_number |-> [opcode |-> "looks_backdropnumbername", field |-> "NUMBER_NAME",
                        value |-> "number"],
   backdrop_name |-> [opcode |-> "looks_backdropnumbername", field |-> "NUMBER_NAME",
                      value |-> "name"],
   current_year |-> [opcode |-> "sensing_current", field |-> "CURRENTMENU", value |-> "YEAR"],
   current_month |-> [opcode |-> "sensing_current", field |-> "CURRENTMENU", value |-> "MONTH"],
   current_date |-> [opcode |-> "sensing_current", field |-> "CURRENTMENU", value |-> "DATE"],
   current_day |-> [opcode |-> "sensing_current", field |-> "CURRENTMENU",
                    value |-> "DAYOFWEEK"],
   current_hour |-> [opcode |-> "sensing_current", field |-> "CURRENTMENU", value |-> "HOUR"],
   current_minute |-> [opcode |-> "sensing_current", field |-> "CURRENTMENU",
                       value |-> "MINUTE"],
   current_second |-> [opcode |-> "sensing_current", field |-> "CURRENTMENU",
                       value |-> "SECOND"]]

\* mathop_map of visit_Call
MathopMap ==
  [abs |-> "abs", floor |-> "floor", ceiling |-> "ceiling", sqrt |-> "sqrt", sin |-> "sin",
   cos |-> "cos", tan |-> "tan", asin |-> "asin", acos |-> "acos", atan |-> "atan",
   ln |-> "ln", log |-> "log", e_pow |-> "e ^", ten_pow |-> "10 ^"]

\* key_map of visit_Call and _visit_sprite_method
KeyMap == [space |-> "space", up |-> "up arrow", down |-> "down arrow",
           left |-> "left arrow", right |-> "right arrow", any |-> "any"]

Lookup(map, key) == IF key \in DOMAIN map THEN map[key] ELSE key

\* str.lower() and str.upper(), on the strings that occur in the programs
\* the model compiles (a string without cased letters, or already in the
\* wanted case, is its own image).
LowerTable == [COLOR |-> "color", GHOST |-> "ghost", PITCH |-> "pitch", Mouse |-> "mouse", Dog |-> "dog",
               L |-> "l", FORWARD |-> "forward", BACKWARD |-> "backward", MOUSE |-> "mouse",
               HI |-> "hi", EDGE |-> "edge", SPACE |-> "space", RANDOM |-> "random",
               MYSELF |-> "myself", MEOW |-> "meow", X |-> "x",
               MOUSE_POINTER |-> "mouse_pointer", True |-> "true", False |-> "false"]
UpperTable == [color |-> "COLOR", ghost |-> "GHOST", pitch |-> "PITCH", forward |-> "FORWARD",
               backward |-> "BACKWARD", mouse |-> "MOUSE", Mouse |-> "MOUSE", hi |-> "HI",
               edge |-> "EDGE", space |-> "SPACE", random |-> "RANDOM", myself |-> "MYSELF",
               meow |-> "MEOW", x |-> "X", mouse_pointer |-> "MOUSE_POINTER"]
Lower(s) == Lookup(LowerTable, s)
Upper(s) == Lookup(UpperTable, s)

\* _handle_motion_target
HandleMotionTarget(target_str) ==
  LET target_map == [random |-> "_random_", random_position |-> "_random_",
                     mouse |-> "_mouse_", mouse_pointer |-> "_mouse_"]
  IN IF Lower(target_str) \in DOMAIN target_map THEN target_map[Lower(target_str)]
     ELSE target_str

\* self._create_literal_input(v.r, block_id), for the value v.r just extracted.
InputOf(v, block_id) == CreateLiteralInput(v.t, v.r, block_id)

\* self.blocks[id]["inputs"][slot] = i.r (an input) or [1, m.r] (a menu); r is id.
AddInput(i, id, slot) == Ret(SetInput(i.t, id, Slot(slot), i.r), id)
WithMenu(m, id, slot) == Ret(SetInput(m.t, id, Slot(slot), RefInput(1, m.r)), id)

Statement(c) == Ret(c.t, Null)

RECURSIVE ExtractAll(_, _, _, _)
\* [self._extract_value(arg) for arg in args]
ExtractAll(t, args, i, acc) ==
  LET Collect(v) == ExtractAll(v.t, args, i + 1, Append(acc, v.r))
  IN IF i > Len(args) THEN Ret(t, acc) ELSE Collect(ExtractValue(t, args[i]))

RECURSIVE MultiArgFold(_, _, _, _, _, _)
\* The loop over input_names of the MULTI_ARG_MAP branch.
MultiArgFold(t, node, names, i, block_id, inputs) ==
  LET Add(c) ==
        MultiArgFold(c.t, node, names, i + 1, block_id, Put(inputs, Slot(names[i]), c.r))
  IN IF i > Len(names) THEN Ret(t, inputs)
     ELSE IF i <= Len(node.args)
          THEN Add(InputOf(ExtractValue(t, node.args[i]), block_id))
          ELSE MultiArgFold(t, node, names, i + 1, block_id, inputs)

\* A reporter with inputs slot1, slot2 from the first two arguments.
CallTwoInputs(t, node, opcode, slot1, slot2) ==
  LET Fill(c, p) == WithInputs(TwoInputs(p.t, p.r[1], slot1, p.r[2], slot2, c.r), c.r)
      Args(c) ==
        IF Len(node.args) >= 2
        THEN Fill(c, ExtractAll(c.t, SubSeq(node.args, 1, 2), 1, <<>>))
        ELSE Ret(SetInputs(c.t, c.r, EmptyMap), c.r)
  IN Args(CreateBlock(t, opcode, EmptyMap, FALSE, FALSE, TRUE))

\* A block with one input from the first argument (FUNCTION_MAP, length, round).
CallOneInput(t, node, opcode, slot, is_reporter) ==
  LET Arg(c) ==
        IF Len(node.args) >= 1
        THEN WithInput(InputOf(ExtractValue(c.t, node.args[1]), c.r), c.r, slot)
        ELSE c
  IN Arg(CreateBlock(t, opcode, EmptyMap, FALSE, FALSE, is_reporter))

\* A block whose first string argument is looked up in a table and put in a
\* menu block (key_pressed, touching, distance_to).
CallMenuReporter(t, node, opcode, menu_opcode, field, map, lower) ==
  LET Key(s) == IF lower THEN Lower(s) ELSE s
      Option(s) == IF Key(s) \in DOMAIN map THEN map[Key(s)] ELSE s
      Menu(c, v) ==
        IF IsString(v.r)
        THEN WithMenu(CreateMenuBlock(v.t, menu_opcode, field, StrV(Option(v.r.s)), c.r),
                      c.r, field)
        ELSE Ret(v.t, c.r)
      Arg(c) == IF Len(node.args) >= 1 THEN Menu(c, ExtractValue(c.t, node.args[1])) ELSE c
  IN Arg(CreateBlock(t, opcode, EmptyMap, FALSE, FALSE, TRUE))

\* The MENU_FUNCTION_MAP branch.
CallMenuFunction(t, node) ==
  LET m == MENU_FUNCTION_MAP[node.func]
      motion == node.func \in {"glide_to", "go_to", "point_towards"}
      sound == node.func \in {"play_sound", "start_sound", "play_sound_until_done"}
      Menu(c, v) ==
        WithMenu(CreateMenuBlock(IF IsString(v.r) /\ sound
                                 THEN [v.t EXCEPT !.sounds_used = @ \cup {v.r.s}] ELSE v.t,
                                 m.menu, m.field,
                                 StrV(PyStr(IF IsString(v.r) /\ motion
                                            THEN StrV(HandleMotionTarget(v.r.s)) ELSE v.r)),
                                 c.r),
                 c.r, m.input)
      Secs(c) ==
        IF Len(node.args) >= 1
        THEN AddInput(InputOf(ExtractValue(c.t, node.args[1]), c.r), c.r, "SECS")
        ELSE c
      GlideTo(c) == IF Len(node.args) >= 2 THEN Menu(c, ExtractValue(c.t, node.args[2])) ELSE c
      To(c) == IF Len(node.args) >= 1 THEN Menu(c, ExtractValue(c.t, node.args[1])) ELSE c
      Create(secs) ==
        IF secs THEN GlideTo(Secs(CreateBlock(t, m.opcode, EmptyMap, FALSE, FALSE, FALSE)))
        ELSE To(CreateBlock(t, m.opcode, EmptyMap, FALSE, FALSE, FALSE))
  IN Statement(Create(node.func = "glide_to"))

\* The FIELD_INPUT_MAP branch.
CallFieldInput(t, node) ==
  LET m == FIELD_INPUT_MAP[node.func]
      Option(c, v) ==
        Ret(SetField(v.t, c.r, m.field,
                     Field(IF IsString(v.r) THEN StrV(Upper(v.r.s)) ELSE v.r, Null)), c.r)
      First(c) == IF Len(node.args) >= 1 THEN Option(c, ExtractValue(c.t, node.args[1])) ELSE c
      Second(c) ==
        IF Len(node.args) >= 2
        THEN WithInput(InputOf(ExtractValue(c.t, node.args[2]), c.r), c.r, m.input)
        ELSE c
  IN Statement(Second(First(CreateBlock(t, m.opcode, EmptyMap, FALSE, FALSE, FALSE))))

\* The FIELD_FUNCTION_MAP branch.
CallFieldFunction(t, node) ==
  LET m == FIELD_FUNCTION_MAP[node.func]
      Option(c, v) ==
        Ret(IF IsString(v.r) THEN SetField(v.t, c.r, m.field, Field(v.r, Null)) ELSE v.t, c.r)
      First(c) == IF Len(node.args) >= 1 THEN Option(c, ExtractValue(c.t, node.args[1])) ELSE c
  IN Statement(First(CreateBlock(t, m.opcode, EmptyMap, FALSE, FALSE, FALSE)))

\* broadcast / broadcast_and_wait
CallBroadcast(t, node, opcode) ==
  LET Fill(c, name, id) ==
        Ret(SetInput(c.t, c.r, Slot("BROADCAST_INPUT"), LitInput(BroadcastLit(name, id))), Null)
      Send(name, b) == Fill(CreateBlock(b.t, opcode, EmptyMap, FALSE, FALSE, FALSE), name, b.r)
      Named(v) == IF IsString(v.r) THEN Send(v.r.s, GetOrCreateBroadcast(v.t, v.r.s))
                  ELSE Ret(v.t, Null)
  IN IF Len(node.args) >= 1 THEN Named(ExtractValue(t, node.args[1])) ELSE Ret(t, Null)

\* touching_color / color_touching_color: colour literals [9, str(value)].
CallColor(t, node, opcode, slots) ==
  LET One(c, p, i) == SetInput(c.t, c.r, Slot(slots[i]), LitInput(Lit(9, p.r[i])))
      Fill(c, p) ==
        IF Len(slots) = 2 THEN Ret(One(Ret(One(Ret(p.t, c.r), p, 1), c.r), p, 2), c.r)
        ELSE Ret(One(Ret(p.t, c.r), p, 1), c.r)
      Args(c) ==
        IF Len(node.args) >= Len(slots)
        THEN Fill(c, ExtractAll(c.t, SubSeq(node.args, 1, Len(slots)), 1, <<>>))
        ELSE c
  IN Args(CreateBlock(t, opcode, EmptyMap, FALSE, FALSE, TRUE))

\* pick_random / random
CallRandom(t, node) ==
  LET Two(c, p) == WithInputs(TwoInputs(p.t, p.r[1], "FROM", p.r[2], "TO", c.r), c.r)
      Both(c, f, i) ==
        Ret(SetInputs(i.t, c.r, Put(Put(EmptyMap, Slot("FROM"), f.r), Slot("TO"), i.r)), c.r)
      One(c, f) == Both(c, f, InputOf(ExtractValue(f.t, node.args[1]), c.r))
      Args(c) ==
        IF Len(node.args) >= 2 THEN Two(c, ExtractAll(c.t, SubSeq(node.args, 1, 2), 1, <<>>))
        ELSE IF Len(node.args) = 1 THEN One(c, CreateLiteralInput(c.t, NumV(1), c.r))
        ELSE Ret(SetInputs(c.t, c.r, EmptyMap), c.r)
  IN Args(CreateBlock(t, "operator_random", EmptyMap, FALSE, FALSE, TRUE))

\* The math functions.
CallMathop(t, node) ==
  LET Operator(c) ==
        Ret(SetField(c.t, c.r, "OPERATOR", Field(StrV(MathopMap[node.func]), Null)), c.r)
      Arg(c) ==
        IF Len(node.args) >= 1
        THEN WithInput(InputOf(ExtractValue(c.t, node.args[1]), c.r), c.r, "NUM")
        ELSE c
  IN Arg(Operator(CreateBlock(t, "operator_mathop", EmptyMap, FALSE, FALSE, TRUE)))

\* self.blocks[c.r]["fields"][field] = [name, id]; r is the id of a reporter.
NameField(c, field, name, id, is_reporter) ==
  Ret(SetField(c.t, c.r, field, Field(name, id)), IF is_reporter THEN c.r ELSE Null)

\* List blocks with no input, one input, two inputs; nameIdx is the position
\* of the list name among the arguments.
ListOp0(t, node, opcode, is_reporter) ==
  LET OnList(name, l) ==
        NameField(CreateBlock(l.t, opcode, EmptyMap, FALSE, FALSE, is_reporter),
                  "LIST", name, l.r, is_reporter)
      Named(n) == IF IsString(n.r) THEN OnList(n.r, GetOrCreateList(n.t, n.r.s))
                  ELSE Ret(n.t, Null)
  IN IF Len(node.args) >= 1 THEN Named(ExtractValue(t, node.args[1])) ELSE Ret(t, Null)

ListOp1(t, node, opcode, slot, nameIdx, is_reporter) ==
  LET Fill(c, name, item, id) ==
        NameField(WithInput(CreateLiteralInput(c.t, item, c.r), c.r, slot),
                  "LIST", name, id, is_reporter)
      OnList(name, item, l) ==
        Fill(CreateBlock(l.t, opcode, EmptyMap, FALSE, FALSE, is_reporter), name, item, l.r)
      Args(p) ==
        IF IsString(p.r[nameIdx])
        THEN OnList(p.r[nameIdx], p.r[3 - nameIdx], GetOrCreateList(p.t, p.r[nameIdx].s))
        ELSE Ret(p.t, Null)
  IN IF Len(node.args) >= 2 THEN Args(ExtractAll(t, SubSeq(node.args, 1, 2), 1, <<>>))
     ELSE Ret(t, Null)

ListOp2(t, node, opcode, itemFirst) ==
  LET Fill(c, p, id) ==
        NameField(WithInputs(IF itemFirst
                             THEN TwoInputs(c.t, p.r[2], "ITEM", p.r[1], "INDEX", c.r)
                             ELSE TwoInputs(c.t, p.r[1], "INDEX", p.r[2], "ITEM", c.r), c.r),
                  "LIST", p.r[3], id, FALSE)
      OnList(p, l) == Fill(CreateBlock(l.t, opcode, EmptyMap, FALSE, FALSE, FALSE), p, l.r)
      Args(p) == IF IsString(p.r[3]) THEN OnList(p, GetOrCreateList(p.t, p.r[3].s))
                 ELSE Ret(p.t, Null)
  IN IF Len(node.args) >= 3 THEN Args(ExtractAll(t, SubSeq(node.args, 1, 3), 1, <<>>))
     ELSE Ret(t, Null)

\* show_variable / hide_variable
CallVariableVisibility(t, node, opcode) ==
  LET OnVariable(name, v) ==
        NameField(CreateBlock(v.t, opcode, EmptyMap, FALSE, FALSE, FALSE),
                  "VARIABLE", name, v.r, FALSE)
      Named(n) == IF IsString(n.r) THEN OnVariable(n.r, GetOrCreateVariable(n.t, n.r.s, NumV(0)))
                  ELSE Ret(n.t, Null)
  IN IF Len(node.args) >= 1 THEN Named(ExtractValue(t, node.args[1])) ELSE Ret(t, Null)

\* property_of
CallPropertyOf(t, node) ==
  LET Property(c, p) ==
        Ret(IF IsString(p.r[1]) THEN SetField(p.t, c.r, "PROPERTY", Field(p.r[1], Null))
            ELSE p.t, p.r[2])
      Object(c, o) ==
        IF IsString(o.r)
        THEN WithMenu(CreateMenuBlock(o.t, "sensing_of_object_menu", "OBJECT", o.r, c.r),
                      c.r, "OBJECT")
        ELSE Ret(o.t, c.r)
      Args(c) ==
        IF Len(node.args) >= 2
        THEN Object(c, Property(c, ExtractAll(c.t, SubSeq(node.args, 1, 2), 1, <<>>)))
        ELSE c
  IN Args(CreateBlock(t, "sensing_of", EmptyMap, FALSE, FALSE, TRUE))

\* wait_until
CallWaitUntil(t, node) ==
  LET Condition(c, k) == SetBlockInput(Ret(k.t, c.r), "CONDITION", k.r)
      Arg(c) == IF Len(node.args) >= 1 THEN Condition(c, ProcessCondition(c.t, node.args[1]))
                ELSE c
  IN Statement(Arg(CreateBlock(t, "control_wait_until", EmptyMap, FALSE, FALSE, FALSE)))

RECURSIVE ProcedureCallInputs(_, _, _, _, _, _)
\* The loop of _create_procedure_call over zip(argument_ids, call_args).
ProcedureCallInputs(t, arg_ids, call_args, i, call_id, inputs) ==
  LET Add(c) == ProcedureCallInputs(c.t, arg_ids, call_args, i + 1, call_id,
                                    Put(inputs, ArgKey(arg_ids[i]), c.r))
  IN IF i > Len(arg_ids) \/ i > Len(call_args) THEN Ret(t, inputs)
     ELSE Add(CreateLiteralInput(t, call_args[i], call_id))

\* _create_procedure_call
CreateProcedureCall(t, proc_name, call_args) ==
  LET Mutation(c, proc_info) ==
        Ret([c.t EXCEPT !.blocks[c.r].mutation =
               [proccode |-> proc_info.proccode, argumentids |-> proc_info.argument_ids,
                argumentnames |-> <<>>, has |-> TRUE, isCall |-> TRUE]], c.r)
      Fill(c, proc_info) ==
        Mutation(WithInputs(ProcedureCallInputs(c.t, proc_info.argument_ids, call_args, 1,
                                                c.r, EmptyMap), c.r), proc_info)
  IN IF ~Has(t.custom_blocks, proc_name) THEN Ret(t, Null)
     ELSE Fill(CreateBlock(t, "procedures_call", EmptyMap, FALSE, FALSE, FALSE),
               t.custom_blocks[proc_name])

\* The argument reference branch at the end of visit_Call.
CallArgumentReporter(t, node) ==
  StoreBlock(GenerateId(t),
             Block("argument_reporter_string_number", Null, EmptyMap,
                   Put(EmptyMap, "VALUE", Field(StrV(node.func), Null)), FALSE, FALSE))

\* visit_Call: r is the block id of a reporter, None otherwise.
VisitCall(t, node) ==
  LET f == node.func
      FieldReporter(c, m) == Ret(SetField(c.t, c.r, m.field, Field(StrV(m.value), Null)), c.r)
      MultiArg(c, m) == WithInputs(MultiArgFold(c.t, node, m.inputs, 1, c.r, EmptyMap), c.r)
      Procedure(a) == CreateProcedureCall(a.t, f, a.r)
  IN CASE f \in DOMAIN REPORTER_MAP -> CreateBlock(t, REPORTER_MAP[f], EmptyMap, FALSE, FALSE, TRUE)
       [] f \in DOMAIN BOOLEAN_REPORTER_MAP ->
            CreateBlock(t, BOOLEAN_REPORTER_MAP[f], EmptyMap, FALSE, FALSE, TRUE)
       [] f \in DOMAIN FIELD_REPORTER_MAP ->
            FieldReporter(CreateBlock(t, FIELD_REPORTER_MAP[f].opcode, EmptyMap,
                                      FALSE, FALSE, TRUE), FIELD_REPORTER_MAP[f])
       [] f \in DOMAIN FUNCTION_MAP ->
            Statement(CallOneInput(t, node, FUNCTION_MAP[f].opcode, FUNCTION_MAP[f].input, FALSE))
       [] f \in DOMAIN MULTI_ARG_MAP ->
            Statement(MultiArg(CreateBlock(t, MULTI_ARG_MAP[f].opcode, EmptyMap,
                                           FALSE, FALSE, FALSE), MULTI_ARG_MAP[f]))
       [] f \in DOMAIN NO_ARG_MAP ->
            Statement(CreateBlock(t, NO_ARG_MAP[f], EmptyMap, FALSE, FALSE, FALSE))
       [] f \in DOMAIN FIELD_INPUT_MAP -> CallFieldInput(t, node)
       [] f \in DOMAIN MENU_FUNCTION_MAP -> CallMenuFunction(t, node)
       [] f \in DOMAIN FIELD_FUNCTION_MAP -> CallFieldFunction(t, node)
       [] f = "broadcast" -> CallBroadcast(t, node, "event_broadcast")
       [] f = "broadcast_and_wait" -> CallBroadcast(t, node, "event_broadcastandwait")
       [] f = "key_pressed" ->
            CallMenuReporter(t, node, "sensing_keypressed", "sensing_keyoptions", "KEY_OPTION",
                             KeyMap, FALSE)
       [] f = "touching" ->
            CallMenuReporter(t, node, "sensing_touchingobject", "sensing_touchingobjectmenu",
                             "TOUCHINGOBJECTMENU", [mouse |-> "_mouse_", edge |-> "_edge_"], TRUE)
       [] f = "touching_color" -> CallColor(t, node, "sensing_touchingcolor", <<"COLOR">>)
       [] f = "distance_to" ->
            CallMenuReporter(t, node, "sensing_distanceto", "sensing_distancetomenu",
                             "DISTANCETOMENU", [mouse |-> "_mouse_"], TRUE)
       [] f \in {"pick_random", "random"} -> CallRandom(t, node)
       [] f \in DOMAIN MathopMap -> CallMathop(t, node)
       [] f = "join" -> CallTwoInputs(t, node, "operator_join", "STRING1", "STRING2")
       [] f = "letter_of" -> CallTwoInputs(t, node, "operator_letter_of", "LETTER", "STRING")
       [] f = "length" -> CallOneInput(t, node, "operator_length", "STRING", TRUE)
       [] f = "contains" -> CallTwoInputs(t, node, "operator_contains", "STRING1", "STRING2")
       [] f = "round" -> CallOneInput(t, node, "operator_round", "NUM", TRUE)
       [] f = "add_to_list" -> ListOp1(t, node, "data_addtolist", "ITEM", 2, FALSE)
       [] f = "delete_of_list" -> ListOp1(t, node, "data_deleteoflist", "INDEX", 2, FALSE)
       [] f = "delete_all_of_list" -> ListOp0(t, node, "data_deletealloflist", FALSE)
       [] f = "insert_at_list" -> ListOp2(t, node, "data_insertatlist", TRUE)
       [] f = "replace_item_of_list" -> ListOp2(t, node, "data_replaceitemoflist", FALSE)
       [] f = "item_of_list" -> ListOp1(t, node, "data_itemoflist", "INDEX", 2, TRUE)
       [] f = "item_num_of_list" -> ListOp1(t, node, "data_itemnumoflist", "ITEM", 2, TRUE)
       [] f = "length_of_list" -> ListOp0(t, node, "data_lengthoflist", TRUE)
       [] f = "list_contains" -> ListOp1(t, node, "data_listcontainsitem", "ITEM", 1, TRUE)
       [] f = "show_list" -> ListOp0(t, node, "data_showlist", FALSE)
       [] f = "hide_list" -> ListOp0(t, node, "data_hidelist", FALSE)
       [] f = "show_variable" -> CallVariableVisibility(t, node, "data_showvariable")
       [] f = "hide_variable" -> CallVariableVisibility(t, node, "data_hidevariable")
       [] f = "color_touching_color" ->
            CallColor(t, node, "sensing_coloristouchingcolor", <<"COLOR", "COLOR2">>)
       [] f = "property_of" -> CallPropertyOf(t, node)
       [] f = "wait_until" -> CallWaitUntil(t, node)
       [] Has(t.custom_blocks, f) ->
            Statement(Procedure(ExtractAll(t, node.args, 1, <<>>)))
       [] Has(t.proc_args, f) -> CallArgumentReporter(t, node)
       [] OTHER -> Ret(t, Null)

\* ------------------------------------------------------ statement compiler
RECURSIVE VisitStmts(_, _, _)
RECURSIVE BodyFold(_, _, _, _, _)

IsForever(node) == node.k = "While" /\ node.test.k = "True"

\* self.visit(body[i]), recording in after_forever what it allocates when
\* body[i] follows a `while True:` loop of body.
VisitNth(t, body, i) ==
  LET Record(t1) ==
        IF \E j \in 1..(i - 1) : IsForever(body[j])
        THEN [t1 EXCEPT !.after_forever = @ \cup (t.nid..(t1.nid - 1))]
        ELSE t1
  IN Record(Visit(t, body[i]).t)

\* for stmt in body: self.visit(stmt)
VisitStmts(t, body, i) ==
  IF i > Len(body) THEN t ELSE VisitStmts(VisitNth(t, body, i), body, i + 1)

\* The loop of _visit_body.
BodyFold(t, body, i, parent_id, first_block_id) ==
  LET Visited(t1) ==
        IF first_block_id = Null /\ t1.prev # Null
        THEN BodyFold(SetParent(t1, t1.prev, parent_id), body, i + 1, parent_id, t1.prev)
        ELSE BodyFold(t1, body, i + 1, parent_id, first_block_id)
  IN IF i > Len(body) THEN Ret(t, first_block_id) ELSE Visited(VisitNth(t, body, i))

\* A _visit_body that does not pause the current chain.
VisitBodyInChain(t, body, parent_id) ==
  LET Restore(f) == Ret([f.t EXCEPT !.prev = t.prev], f.r)
  IN Restore(BodyFold(t, body, 1, parent_id, Null))

\* _visit_body
VisitBody(t, body, parent_id) ==
  LET Restore(f) == Ret([f.t EXCEPT !.prev = t.prev], f.r)
  IN Restore(BodyFold([t EXCEPT !.prev = Null], body, 1, parent_id, Null))

\* if first_inner_id: self.blocks[id]["inputs"][slot] = [2, first_inner_id],
\* for the first_inner_id b.r that _visit_body returned.
SetSubstack(b, id, slot) ==
  IF b.r # Null THEN SetInput(b.t, id, Slot(slot), RefInput(2, b.r)) ELSE b.t

\* if condition_block_id: set CONDITION and the condition's parent
SetCondition(t, id, condition_block_id) ==
  IF condition_block_id # Null
  THEN SetParent(SetInput(t, id, Slot("CONDITION"), RefInput(2, condition_block_id)),
                 condition_block_id, id)
  ELSE t

\* visit_Assign
VisitAssign(t, node) ==
  LET Fill(c, value, var_id) ==
        SetFields(WithInput(CreateLiteralInput(c.t, value, c.r), c.r, "VALUE").t, c.r,
                  Put(EmptyMap, "VARIABLE", Field(StrV(node.target), var_id)))
      Set(value, var) ==
        Fill(CreateBlock(var.t, "data_setvariableto", EmptyMap, FALSE, FALSE, FALSE),
             value, var.r)
      Value(v) ==
        Set(v.r, GetOrCreateVariable(v.t, node.target, IF IsMarker(v.r) THEN NumV(0) ELSE v.r))
  IN Value(ExtractValue(t, node.value))

\* visit_AugAssign
VisitAugAssign(t, node) ==
  LET Finish(i, id, var_id) ==
        SetFields(WithInput(i, id, "VALUE").t, id,
                  Put(EmptyMap, "VARIABLE", Field(StrV(node.target), var_id)))
      Operands(sub, value) ==
        SetInput(SetInput(sub.t, sub.r, Slot("NUM1"), LitInput(Lit(4, NumV(0)))),
                 sub.r, Slot("NUM2"), ObscuredInput(value.n))
      Negated(sub, id, value, var_id) ==
        IF Has(sub.t.blocks, value.n)
        THEN Finish(Ret(SetParent(Operands(sub, value), value.n, sub.r),
                        ObscuredInput(sub.r)), id, var_id)
        ELSE [Operands(sub, value) EXCEPT !.raised = TRUE]
      Change(c, value, var_id) ==
        IF node.op = "Sub" /\ IsIntOrFloat(value)
        THEN Finish(CreateLiteralInput(c.t, NumV(0 - value.n), c.r), c.r, var_id)
        ELSE IF node.op = "Sub" /\ value.ty = "block"
        THEN Negated(CreateBlock(c.t, "operator_subtract", EmptyMap, FALSE, FALSE, TRUE),
                     c.r, value, var_id)
        ELSE Finish(CreateLiteralInput(c.t, value, c.r), c.r, var_id)
      Var(value, var) ==
        IF node.op \in {"Add", "Sub"}
        THEN Change(CreateBlock(var.t, "data_changevariableby", EmptyMap, FALSE, FALSE, FALSE),
                    value, var.r)
        ELSE var.t
      Value(v) == Var(v.r, GetOrCreateVariable(v.t, node.target, NumV(0)))
  IN Value(ExtractValue(t, node.value))

\* A for loop that always repeats 10 times, whatever range is given.
VisitForTen(t, node) ==
  LET Body(c) == [SetSubstack(VisitBody(c.t, node.body, c.r), c.r, "SUBSTACK")
                    EXCEPT !.prev = c.r]
      Repeat(i) == Body(CreateBlock(i.t, "control_repeat", Put(EmptyMap, Slot("TIMES"), i.r),
                                    FALSE, FALSE, FALSE))
  IN Repeat(InputOf(Ret(t, NumV(10)), Null))

\* visit_For
VisitFor(t, node) ==
  LET Body(c) == [SetSubstack(VisitBody(c.t, node.body, c.r), c.r, "SUBSTACK")
                    EXCEPT !.prev = c.r]
      Repeat(i) == Body(CreateBlock(i.t, "control_repeat", Put(EmptyMap, Slot("TIMES"), i.r),
                                    FALSE, FALSE, FALSE))
  IN Repeat(InputOf(IF node.iter.k = "Call" /\ node.iter.func = "range"
                       /\ Len(node.iter.args) > 0
                    THEN ExtractValue(t, node.iter.args[1]) ELSE Ret(t, NumV(10)), Null))

\* visit_While
VisitWhile(t, node) ==
  LET Forever(c) == [SetSubstack(VisitBody(c.t, node.body, c.r), c.r, "SUBSTACK")
                       EXCEPT !.prev = Null]
      Body(c, k) ==
        [SetSubstack(VisitBody(SetCondition(k.t, c.r, k.r), node.body, c.r), c.r, "SUBSTACK")
           EXCEPT !.prev = c.r]
      Until(c) == Body(c, ProcessCondition(c.t, node.test))
  IN IF node.test.k = "True"
     THEN Forever(CreateBlock(t, "control_forever", EmptyMap, FALSE, FALSE, FALSE))
     ELSE Until(CreateBlock(t, "control_repeat_until", EmptyMap, FALSE, FALSE, FALSE))

\* visit_If
VisitIf(t, node) ==
  LET Else(t1, id) ==
        IF Len(node.orelse) > 0
        THEN [SetSubstack(VisitBody([t1 EXCEPT !.blocks[id].opcode = "control_if_else"],
                                    node.orelse, id), id, "SUBSTACK2")
                EXCEPT !.prev = id]
        ELSE [t1 EXCEPT !.prev = id]
      Then(c, condition_block_id) ==
        Else(SetSubstack(VisitBody(SetCondition(c.t, c.r, condition_block_id), node.body, c.r),
                         c.r, "SUBSTACK"), c.r)
      If(k) == Then(CreateBlock(k.t, "control_if", EmptyMap, FALSE, FALSE, FALSE), k.r)
  IN If(ProcessCondition(t, node.test))

\* ------------------------------------------- custom procedures and classes
RECURSIVE VisitSpriteMethods(_, _, _)
RECURSIVE GenerateIds(_, _, _)
RECURSIVE PreRegister(_, _, _)
RECURSIVE ArgumentReporters(_, _, _, _, _, _)

\* name.startswith('when_'), name.startswith('__')
WhenPrefixes == {"when_", "when_key_", "when_backdrop_", "when_broadcast_",
                 "when_loudness_gt_", "when_timer_gt_"}
StartsWithWhen(name) == name.prefix \in WhenPrefixes
StartsWithDunder(name) == name.prefix = "__"
IsCustomName(name) == ~StartsWithWhen(name) /\ ~StartsWithDunder(name)

\* name.replace('define_', '')
ReplaceDefine(name) == IF name.prefix = "define_" THEN name.rest ELSE FullName(name)

\* [self._generate_id() for _ in range(n)]
GenerateIds(t, n, acc) ==
  LET Add(g) == GenerateIds(g.t, n - 1, Append(acc, g.r))
  IN IF n = 0 THEN Ret(t, acc) ELSE Add(GenerateId(t))

\* proc_name followed by one " %s" per argument
Proccode(proc_name, arg_names) == [name |-> proc_name, n |-> Len(arg_names)]

\* dict(zip(arg_names, arg_ids)): a later duplicate name wins.
ZipDict(names, ids) ==
  [nm \in {names[i] : i \in 1..Len(names)} |->
     ids[CHOOSE i \in 1..Len(names) :
           names[i] = nm /\ \A j \in 1..Len(names) : names[j] = nm => j <= i]]

\* The loop of _create_custom_block_definition that creates the prototype's
\* argument reporters; r is argument_inputs.
ArgumentReporters(t, arg_names, arg_ids, i, prototype_id, argument_inputs) ==
  LET Add(g) ==
        ArgumentReporters(
          StoreBlock(g, Block("argument_reporter_string_number", prototype_id, EmptyMap,
                              Put(EmptyMap, "VALUE", Field(StrV(arg_names[i]), Null)),
                              TRUE, FALSE)).t,
          arg_names, arg_ids, i + 1, prototype_id,
          Put(argument_inputs, ArgKey(arg_ids[i]), RefInput(1, g.r)))
  IN IF i > Len(arg_names) \/ i > Len(arg_ids) THEN Ret(t, argument_inputs)
     ELSE Add(GenerateId(t))

\* _create_custom_block_definition
CreateCustomBlockDefinition(t, node) ==
  LET proc_name == ReplaceDefine(node.name)
      preregistered == Has(t.custom_blocks, proc_name)
                       /\ t.custom_blocks[proc_name].preregistered
      arg_names == IF preregistered THEN t.custom_blocks[proc_name].argument_names
                   ELSE node.args
      proccode == IF preregistered THEN t.custom_blocks[proc_name].proccode
                  ELSE Proccode(proc_name, arg_names)
      Body(t1) ==
        [VisitStmts(t1, node.body, 1) EXCEPT !.proc_args = EmptyMap, !.prev = Null,
                                             !.hat = Null]
      Define(arg_ids, definition_id, prototype_id, a) ==
        Body([a.t EXCEPT
                !.blocks =
                   Put(Put(@, prototype_id,
                           [Block("procedures_prototype", definition_id, a.r, EmptyMap,
                                  TRUE, FALSE)
                              EXCEPT !.mutation =
                                       [proccode |-> proccode, argumentids |-> arg_ids,
                                        argumentnames |-> arg_names, has |-> TRUE,
                                        isCall |-> FALSE]]),
                       definition_id,
                       Block("procedures_definition", Null,
                             Put(EmptyMap, Slot("custom_block"), RefInput(1, prototype_id)),
                             EmptyMap, FALSE, TRUE)),
                !.custom_blocks =
                   Put(@, proc_name,
                       [proccode |-> proccode, argument_ids |-> arg_ids,
                        argument_names |-> arg_names, definition_id |-> definition_id,
                        prototype_id |-> prototype_id, preregistered |-> FALSE]),
                !.hat = definition_id, !.prev = definition_id,
                !.proc_args = ZipDict(arg_names, arg_ids)])
      Prototype(arg_ids, definition_id, p) ==
        Define(arg_ids, definition_id, p.r,
               ArgumentReporters(p.t, arg_names, arg_ids, 1, p.r, EmptyMap))
      Definition(arg_ids, d) == Prototype(arg_ids, d.r, GenerateId(d.t))
      Ids(ids) == Definition(ids.r, GenerateId(ids.t))
  IN Ids(IF preregistered THEN Ret(t, t.custom_blocks[proc_name].argument_ids)
         ELSE GenerateIds(t, Len(node.args), <<>>))

\* int(threshold) / float(threshold) of the decimal texts the model uses;
\* any other text raises ValueError.
Decimal == [d5 |-> 5, d10 |-> 10, d30 |-> 30]
DecimalText == [d5 |-> "5", d10 |-> "10", d30 |-> "30"]
IsDecimal(text) == \E d \in DOMAIN DecimalText : DecimalText[d] = text
ParseDecimal(text) == Decimal[CHOOSE d \in DOMAIN DecimalText : DecimalText[d] = text]

\* An event script: the hat, the body, then the chain is closed.
HatScript(c, body) ==
  [VisitStmts(c.t, body, 1) EXCEPT !.prev = Null, !.hat = Null]

Hat(t, opcode) == CreateBlock(t, opcode, EmptyMap, TRUE, TRUE, FALSE)

HatWithField(t, opcode, field, f) ==
  LET Fill(c) == Ret(SetField(c.t, c.r, field, f), c.r)
  IN Fill(Hat(t, opcode))

\* The two event_whengreaterthan hats.
GreaterThanHat(t, menu, text) ==
  LET Value(c) ==
        Ret(SetInput(c.t, c.r, Slot("VALUE"), LitInput([code |-> 4, s |-> text, id |-> Null])),
            c.r)
  IN Value(HatWithField(t, "event_whengreaterthan", "WHENGREATERTHANMENU",
                        Field(StrV(menu), Null)))

\* _visit_sprite_method
VisitSpriteMethod(t, node) ==
  LET name == node.name
  IN CASE name = FName("when_", "flag_clicked") ->
            HatScript(Hat(t, "event_whenflagclicked"), node.body)
       [] name.prefix = "when_key_" ->
            HatScript(HatWithField(t, "event_whenkeypressed", "KEY_OPTION",
                                   Field(StrV(Lookup(KeyMap, name.rest)), Null)), node.body)
       [] name = FName("when_", "i_start_as_clone") ->
            HatScript(Hat(t, "control_start_as_clone"), node.body)
       [] name = FName("when_", "clicked") ->
            HatScript(Hat(t, "event_whenthisspriteclicked"), node.body)
       [] name.prefix = "when_backdrop_" ->
            HatScript(HatWithField(t, "event_whenbackdropswitchesto", "BACKDROP",
                                   Field(StrV(name.rest), Null)), node.body)
       [] name.prefix = "when_broadcast_" ->
            LET b == GetOrCreateBroadcast(t, name.rest)
            IN HatScript(HatWithField(b.t, "event_whenbroadcastreceived", "BROADCAST_OPTION",
                                      Field(StrV(name.rest), b.r)), node.body)
       [] name.prefix = "when_loudness_gt_" ->
            HatScript(GreaterThanHat(t, "LOUDNESS",
                                     IF IsDecimal(name.rest)
                                     THEN ToString(ParseDecimal(name.rest)) ELSE "10"),
                      node.body)
       [] name.prefix = "when_timer_gt_" ->
            HatScript(GreaterThanHat(t, "TIMER",
                                     IF IsDecimal(name.rest)
                                     THEN ToString(ParseDecimal(name.rest)) \o ".0" ELSE "10"),
                      node.body)
       [] IsCustomName(name) -> CreateCustomBlockDefinition(t, node)
       [] OTHER -> t

\* A class compiled without pass 1.
NoPreRegister(t, body, i) == t

\* Pass 1 of visit_ClassDef.
PreRegister(t, body, i) ==
  LET Register(ids) ==
        PreRegister([ids.t EXCEPT !.custom_blocks =
                       Put(@, ReplaceDefine(body[i].name),
                           [proccode |-> Proccode(ReplaceDefine(body[i].name), body[i].args),
                            argument_ids |-> ids.r, argument_names |-> body[i].args,
                            definition_id |-> Null, prototype_id |-> Null,
                            preregistered |-> TRUE])],
                    body, i + 1)
  IN IF i > Len(body) THEN t
     ELSE IF IsCustomName(body[i].name)
          THEN Register(GenerateIds(t, Len(body[i].args), <<>>))
          ELSE PreRegister(t, body, i + 1)

\* Pass 2 of visit_ClassDef.
VisitSpriteMethods(t, body, i) ==
  IF i > Len(body) THEN t
  ELSE VisitSpriteMethods(IF t.raised THEN t ELSE VisitSpriteMethod(t, body[i]), body, i + 1)

\* A target of self.targets.
Target(name, t) ==
  [name |-> name, blocks |-> t.blocks, variables |-> t.variable_definitions,
   lists |-> t.list_definitions, broadcasts |-> t.broadcast_ids,
   sounds_used |-> t.sounds_used]

\* visit_ClassDef
VisitClassDef(t, node) ==
  LET Finish(t2) ==
        IF t2.raised THEN t2
        ELSE [t2 EXCEPT !.targets = Append(@, Target(node.name, t2)),
                        !.lists_of = Len(t2.targets) + 1,
                        !.blocks = t.blocks,
                        !.variable_definitions = t.variable_definitions,
                        !.variable_ids = t.variable_ids, !.prev = t.prev, !.hat = t.hat,
                        !.custom_blocks = t.custom_blocks]
  IN Finish(VisitSpriteMethods(
               PreRegister([t EXCEPT !.blocks = EmptyMap, !.variable_definitions = EmptyMap,
                                     !.variable_ids = EmptyMap, !.list_definitions = EmptyMap,
                                     !.list_ids = EmptyMap, !.lists_of = 0,
                                     !.custom_blocks = EmptyMap, !.proc_args = EmptyMap,
                                     !.sounds_used = {}, !.prev = Null, !.hat = Null],
                           node.body, 1),
               node.body, 1))

\* visit_FunctionDef
VisitFunctionDef(t, node) ==
  IF node.name = FName("when_", "flag_clicked")
  THEN HatScript(Hat(t, "event_whenflagclicked"), node.body)
  ELSE VisitStmts(t, node.body, 1)

\* NodeVisitor.visit: the visit_* method the class defines for the node,
\* generic_visit (visit the child nodes, return None) for the rest.  An
\* exception ends the compilation.
Visit(t, node) ==
  IF t.raised THEN Ret(t, Null)
  ELSE CASE node.k = "Call" -> VisitCall(t, node)
         [] node.k = "Compare" -> VisitCompare(t, node)
         [] node.k = "BinOp" -> VisitBinOp(t, node)
         [] node.k = "BoolOp" -> VisitBoolOp(t, node)
         [] node.k = "Assign" -> Ret(VisitAssign(t, node), Null)
         [] node.k = "AugAssign" -> Ret(VisitAugAssign(t, node), Null)
         [] node.k = "For" -> Ret(VisitFor(t, node), Null)
         [] node.k = "While" -> Ret(VisitWhile(t, node), Null)
         [] node.k = "If" -> Ret(VisitIf(t, node), Null)
         [] node.k = "FunctionDef" -> Ret(VisitFunctionDef(t, node), Null)
         [] node.k = "ClassDef" -> Ret(VisitClassDef(t, node), Null)
         [] node.k = "Expr" -> Statement(Visit(t, node.value))
         [] node.k = "UnaryOp" -> Statement(Visit(t, node.operand))
         [] OTHER -> Ret(t, Null)

\* The default sprite put after the sprites of the classes.
TranspileReturnLast(t) ==
  IF DOMAIN t.blocks # {}
  THEN [t EXCEPT !.targets = Append(@, Target("Sprite1", [t EXCEPT !.sounds_used = {}]))]
  ELSE t

\* The end of transpile: module-level blocks become a default sprite.
TranspileReturn(t) ==
  IF DOMAIN t.blocks # {}
  THEN [t EXCEPT !.targets = <<Target("Sprite1", [t EXCEPT !.sounds_used = {}])>> \o @,
                 !.lists_of = IF @ # 0 THEN @ + 1 ELSE 0]
  ELSE t

\* create_project_json: the target list of the project.
Stage ==
  [isStage |-> TRUE, name |-> "Stage", blocks |-> EmptyMap, variables |-> EmptyMap,
   lists |-> EmptyMap, broadcasts |-> EmptyMap, layerOrder |-> 0]

Sprite(targets, i) ==
  [isStage |-> FALSE, name |-> targets[i].name, blocks |-> targets[i].blocks,
   variables |-> targets[i].variables, lists |-> targets[i].lists,
   broadcasts |-> targets[i].broadcasts, layerOrder |-> i]

CreateProjectJson(targets) == <<Stage>> \o [i \in 1..Len(targets) |-> Sprite(targets, i)]

\* ------------------------------------------------- the reverse compiler
\* ScratchToPython.  The Python text is a sequence of lines.
RECURSIVE JoinWith(_, _)
\* sep.join(texts)
JoinWith(texts, sep) ==
  IF texts = <<>> THEN ""
  ELSE IF Len(texts) = 1 THEN texts[1]
  ELSE texts[1] \o sep \o JoinWith(Tail(texts), sep)

RECURSIVE Prefix(_)
\* '    ' * indent
Prefix(indent) == IF indent = 0 THEN "" ELSE "    " \o Prefix(indent - 1)

Quoted(s) == "\"" \o s \o "\""

RECURSIVE SortedIds(_)
\* The keys of a dict of the compiler in insertion order: tokens are
\* inserted in the order of their allocation.
SortedIds(ids) ==
  LET least == CHOOSE id \in ids : \A other \in ids : id <= other
  IN IF ids = {} THEN <<>> ELSE <<least>> \o SortedIds(ids \ {least})

\* int(text) and float(text), for the numerals up to MaxNum and the texts
\* with a '.' that the compiler emits; any other text raises ValueError.
MaxNum == 100
IsIntText(text) == \E n \in (0 - MaxNum)..MaxNum : ToString(n) = text
IntOf(text) == CHOOSE n \in (0 - MaxNum)..MaxNum : ToString(n) = text
FloatText == ("5.0" :> "5.0") @@ ("10.0" :> "10.0") @@ ("30.0" :> "30.0")

\* _to_identifier, on the names that occur: every character that is not
\* alphanumeric becomes '_', a leading digit gets a '_' in front, and an
\* empty name becomes Sprite.
IdentifierTable == ("game over" :> "game_over") @@ ("left-right" :> "left_right")
                     @@ ("up arrow" :> "up_arrow") @@ ("" :> "Sprite")
ToIdentifier(name) ==
  IF IsIntText(name) THEN "_" \o ToString(IF IntOf(name) < 0 THEN 0 - IntOf(name) ELSE IntOf(name))
  ELSE Lookup(IdentifierTable, name)

\* key.lower().replace(' arrow', '').replace(' ', '_') of _get_method_name
KeyNameTable == ("up arrow" :> "up") @@ ("down arrow" :> "down") @@ ("left arrow" :> "left")
                  @@ ("right arrow" :> "right")
KeyName(key) == Lookup(KeyNameTable, Lower(key))

\* str(value) of a value read back from project.json, where a tuple the
\* compiler stored has become a list; lower: after .lower().
FieldText(v, lower) ==
  CASE v.ty = "var" -> (IF lower THEN "['__var__', '" \o Lower(v.s) ELSE "['__VAR__', '" \o v.s)
                         \o "']"
    [] v.ty = "block" ->
         (IF lower THEN "['__block__', " ELSE "['__BLOCK__', ")
           \o (IF v.n = Null THEN (IF lower THEN "none" ELSE "None")
               ELSE "'" \o ToString(v.n) \o "'") \o "]"
    [] OTHER -> IF lower THEN Lower(PyStr(v)) ELSE PyStr(v)

\* _format_value
FormatValue(value) ==
  CASE value.ty \in {"num", "bool"} -> PyStr(value)
    [] value.ty = "str" ->
         IF IsIntText(value.s) THEN ToString(IntOf(value.s))
         ELSE IF value.s \in DOMAIN FloatText THEN FloatText[value.s]
         ELSE Quoted(value.s)
    [] OTHER -> FieldText(value, FALSE)

\* _convert_literal
ConvertLiteral(lit) ==
  CASE lit.code \in 4..8 ->
         IF lit.s \in DOMAIN FloatText THEN FloatText[lit.s]
         ELSE IF IsIntText(lit.s) THEN ToString(IntOf(lit.s))
         ELSE lit.s
    [] lit.code \in {9, 10, 11} -> Quoted(lit.s)
    [] lit.code \in {12, 13} -> ToIdentifier(lit.s)
    [] OTHER -> lit.s

\* _get_field_value
GetFieldValue(fields, name) == IF Has(fields, name) THEN FieldText(fields[name].v, FALSE) ELSE ""

\* self._get_field_value(fields, name).lower()
GetFieldValueLower(fields, name) ==
  IF Has(fields, name) THEN FieldText(fields[name].v, TRUE) ELSE ""

\* _get_substack
GetSubstack(inputs, name) == IF Has(inputs, Slot(name)) THEN inputs[Slot(name)].block ELSE Null

\* self.blocks.get(id, {})
NoBlock == Block("", Null, EmptyMap, EmptyMap, FALSE, FALSE)
GetBlock(blocks, id) == IF Has(blocks, id) THEN blocks[id] ELSE NoBlock

\* OPCODE_MAP: opcode -> (function_name, input_names, field_names,
\* field_input_names)
Entry(func, inputs, fields, field_inputs) ==
  [func |-> func, inputs |-> inputs, fields |-> fields, field_inputs |-> field_inputs]

OPCODE_MAP ==
  [motion_movesteps |-> Entry("move", <<"STEPS">>, <<>>, <<>>),
   motion_turnright |-> Entry("turn_right", <<"DEGREES">>, <<>>, <<>>),
   motion_turnleft |-> Entry("turn_left", <<"DEGREES">>, <<>>, <<>>),
   motion_goto |-> Entry("go_to", <<"TO">>, <<>>, <<>>),
   motion_gotoxy |-> Entry("go_to_xy", <<"X", "Y">>, <<>>, <<>>),
   motion_glideto |-> Entry("glide_to", <<"SECS", "TO">>, <<>>, <<>>),
   motion_glidesecstoxy |-> Entry("glide_to_xy", <<"SECS", "X", "Y">>, <<>>, <<>>),
   motion_pointindirection |-> Entry("point_in_direction", <<"DIRECTION">>, <<>>, <<>>),
   motion_pointtowards |-> Entry("point_towards", <<"TOWARDS">>, <<>>, <<>>),
   motion_changexby |-> Entry("change_x", <<"DX">>, <<>>, <<>>),
   motion_setx |-> Entry("set_x", <<"X">>, <<>>, <<>>),
   motion_changeyby |-> Entry("change_y", <<"DY">>, <<>>, <<>>),
   motion_sety |-> Entry("set_y", <<"Y">>, <<>>, <<>>),
   motion_ifonedgebounce |-> Entry("if_on_edge_bounce", <<>>, <<>>, <<>>),
   motion_setrotationstyle |-> Entry("set_rotation_style", <<>>, <<"STYLE">>, <<>>),
   motion_xposition |-> Entry("x_position", <<>>, <<>>, <<>>),
   motion_yposition |-> Entry("y_position", <<>>, <<>>, <<>>),
   motion_direction |-> Entry("direction", <<>>, <<>>, <<>>),
   looks_sayforsecs |-> Entry("say_for_secs", <<"MESSAGE", "SECS">>, <<>>, <<>>),
   looks_say |-> Entry("say", <<"MESSAGE">>, <<>>, <<>>),
   looks_thinkforsecs |-> Entry("think_for_secs", <<"MESSAGE", "SECS">>, <<>>, <<>>),
   looks_think |-> Entry("think", <<"MESSAGE">>, <<>>, <<>>),
   looks_switchcostumeto |-> Entry("switch_costume", <<"COSTUME">>, <<>>, <<>>),
   looks_nextcostume |-> Entry("next_costume", <<>>, <<>>, <<>>),
   looks_switchbackdropto |-> Entry("switch_backdrop", <<"BACKDROP">>, <<>>, <<>>),
   looks_nextbackdrop |-> Entry("next_backdrop", <<>>, <<>>, <<>>),
   looks_changesizeby |-> Entry("change_size", <<"CHANGE">>, <<>>, <<>>),
   looks_setsizeto |-> Entry("set_size", <<"SIZE">>, <<>>, <<>>),
   looks_changeeffectby |-> Entry("change_effect", <<>>, <<"EFFECT">>, <<"CHANGE">>),
   looks_seteffectto |-> Entry("set_effect", <<>>, <<"EFFECT">>, <<"VALUE">>),
   looks_cleargraphiceffects |-> Entry("clear_effects", <<>>, <<>>, <<>>),
   looks_show |-> Entry("show", <<>>, <<>>, <<>>),
   looks_hide |-> Entry("hide", <<>>, <<>>, <<>>),
   looks_gotofrontback |-> Entry("go_to_layer", <<>>, <<"FRONT_BACK">>, <<>>),
   looks_goforwardbackwardlayers |-> Entry("change_layer", <<>>, <<"FORWARD_BACKWARD">>, <<"NUM">>),
   looks_costumenumbername |-> Entry("costume_number", <<>>, <<>>, <<>>),
   looks_backdropnumbername |-> Entry("backdrop_number", <<>>, <<>>, <<>>),
   looks_size |-> Entry("size", <<>>, <<>>, <<>>),
   sound_playuntildone |-> Entry("play_sound_until_done", <<"SOUND_MENU">>, <<>>, <<>>),
   sound_play |-> Entry("play_sound", <<"SOUND_MENU">>, <<>>, <<>>),
   sound_stopallsounds |-> Entry("stop_all_sounds", <<>>, <<>>, <<>>),
   sound_changeeffectby |-> Entry("change_sound_effect", <<>>, <<"EFFECT">>, <<"VALUE">>),
   sound_seteffectto |-> Entry("set_sound_effect", <<>>, <<"EFFECT">>, <<"VALUE">>),
   sound_cleareffects |-> Entry("clear_sound_effects", <<>>, <<>>, <<>>),
   sound_changevolumeby |-> Entry("change_volume", <<"VOLUME">>, <<>>, <<>>),
   sound_setvolumeto |-> Entry("set_volume", <<"VOLUME">>, <<>>, <<>>),
   sound_volume |-> Entry("volume", <<>>, <<>>, <<>>),
   event_whenflagclicked |-> Entry("when_flag_clicked", <<>>, <<>>, <<>>),
   event_whenkeypressed |-> Entry("when_key_", <<>>, <<"KEY_OPTION">>, <<>>),
   event_whenthisspriteclicked |-> Entry("when_clicked", <<>>, <<>>, <<>>),
   event_whenbackdropswitchesto |-> Entry("when_backdrop_", <<>>, <<"BACKDROP">>, <<>>),
   event_whengreaterthan |-> Entry("when_greater_than", <<>>, <<"WHENGREATERTHANMENU">>, <<"VALUE">>),
   event_whenbroadcastreceived |-> Entry("when_broadcast_", <<>>, <<"BROADCAST_OPTION">>, <<>>),
   event_broadcast |-> Entry("broadcast", <<"BROADCAST_INPUT">>, <<>>, <<>>),
   event_broadcastandwait |-> Entry("broadcast_and_wait", <<"BROADCAST_INPUT">>, <<>>, <<>>),
   control_wait |-> Entry("wait", <<"DURATION">>, <<>>, <<>>),
   control_repeat |-> Entry("for i in range", <<"TIMES">>, <<>>, <<>>),
   control_forever |-> Entry("while True", <<>>, <<>>, <<>>),
   control_if |-> Entry("if", <<"CONDITION">>, <<>>, <<>>),
   control_if_else |-> Entry("if_else", <<"CONDITION">>, <<>>, <<>>),
   control_wait_until |-> Entry("wait_until", <<"CONDITION">>, <<>>, <<>>),
   control_repeat_until |-> Entry("while", <<"CONDITION">>, <<>>, <<>>),
   control_stop |-> Entry("stop", <<>>, <<"STOP_OPTION">>, <<>>),
   control_start_as_clone |-> Entry("when_i_start_as_clone", <<>>, <<>>, <<>>),
   control_create_clone_of |-> Entry("create_clone", <<"CLONE_OPTION">>, <<>>, <<>>),
   control_delete_this_clone |-> Entry("delete_this_clone", <<>>, <<>>, <<>>),
   sensing_touchingobject |-> Entry("touching", <<"TOUCHINGOBJECTMENU">>, <<>>, <<>>),
   sensing_touchingcolor |-> Entry("touching_color", <<"COLOR">>, <<>>, <<>>),
   sensing_coloristouchingcolor |-> Entry("color_touching_color", <<"COLOR", "COLOR2">>, <<>>, <<>>),
   sensing_distanceto |-> Entry("distance_to", <<"DISTANCETOMENU">>, <<>>, <<>>),
   sensing_askandwait |-> Entry("ask", <<"QUESTION">>, <<>>, <<>>),
   sensing_answer |-> Entry("answer", <<>>, <<>>, <<>>),
   sensing_keypressed |-> Entry("key_pressed", <<"KEY_OPTION">>, <<>>, <<>>),
   sensing_mousedown |-> Entry("mouse_down", <<>>, <<>>, <<>>),
   sensing_mousex |-> Entry("mouse_x", <<>>, <<>>, <<>>),
   sensing_mousey |-> Entry("mouse_y", <<>>, <<>>, <<>>),
   sensing_setdragmode |-> Entry("set_drag_mode", <<>>, <<"DRAG_MODE">>, <<>>),
   sensing_loudness |-> Entry("loudness", <<>>, <<>>, <<>>),
   sensing_timer |-> Entry("timer", <<>>, <<>>, <<>>),
   sensing_resettimer |-> Entry("reset_timer", <<>>, <<>>, <<>>),
   sensing_of |-> Entry("property_of", <<>>, <<"PROPERTY">>, <<"OBJECT">>),
   sensing_current |-> Entry("current_", <<>>, <<"CURRENTMENU">>, <<>>),
   sensing_dayssince2000 |-> Entry("days_since_2000", <<>>, <<>>, <<>>),
   sensing_username |-> Entry("username", <<>>, <<>>, <<>>),
   operator_add |-> Entry("+", <<"NUM1", "NUM2">>, <<>>, <<>>),
   operator_subtract |-> Entry("-", <<"NUM1", "NUM2">>, <<>>, <<>>),
   operator_multiply |-> Entry("*", <<"NUM1", "NUM2">>, <<>>, <<>>),
   operator_divide |-> Entry("/", <<"NUM1", "NUM2">>, <<>>, <<>>),
   operator_random |-> Entry("pick_random", <<"FROM", "TO">>, <<>>, <<>>),
   operator_gt |-> Entry(">", <<"OPERAND1", "OPERAND2">>, <<>>, <<>>),
   operator_lt |-> Entry("<", <<"OPERAND1", "OPERAND2">>, <<>>, <<>>),
   operator_equals |-> Entry("==", <<"OPERAND1", "OPERAND2">>, <<>>, <<>>),
   operator_and |-> Entry("and", <<"OPERAND1", "OPERAND2">>, <<>>, <<>>),
   operator_or |-> Entry("or", <<"OPERAND1", "OPERAND2">>, <<>>, <<>>),
   operator_not |-> Entry("not", <<"OPERAND">>, <<>>, <<>>),
   operator_join |-> Entry("join", <<"STRING1", "STRING2">>, <<>>, <<>>),
   operator_letter_of |-> Entry("letter_of", <<"LETTER", "STRING">>, <<>>, <<>>),
   operator_length |-> Entry("length", <<"STRING">>, <<>>, <<>>),
   operator_contains |-> Entry("contains", <<"STRING1", "STRING2">>, <<>>, <<>>),
   operator_mod |-> Entry("%", <<"NUM1", "NUM2">>, <<>>, <<>>),
   operator_round |-> Entry("round", <<"NUM">>, <<>>, <<>>),
   operator_mathop |-> Entry("mathop", <<"NUM">>, <<>>, <<>>),
   data_setvariableto |-> Entry("=", <<"VALUE">>, <<>>, <<>>),
   data_changevariableby |-> Entry("+=", <<"VALUE">>, <<>>, <<>>),
   data_showvariable |-> Entry("show_variable", <<>>, <<"VARIABLE">>, <<>>),
   data_hidevariable |-> Entry("hide_variable", <<>>, <<"VARIABLE">>, <<>>),
   data_variable |-> Entry("variable", <<>>, <<>>, <<>>),
   data_addtolist |-> Entry("add_to_list", <<"ITEM">>, <<"LIST">>, <<>>),
   data_deleteoflist |-> Entry("delete_of_list", <<"INDEX">>, <<"LIST">>, <<>>),
   data_deletealloflist |-> Entry("delete_all_of_list", <<>>, <<"LIST">>, <<>>),
   data_insertatlist |-> Entry("insert_at_list", <<"INDEX", "ITEM">>, <<"LIST">>, <<>>),
   data_replaceitemoflist |-> Entry("replace_item_of_list", <<"INDEX", "ITEM">>, <<"LIST">>, <<>>),
   data_itemoflist |-> Entry("item_of_list", <<"INDEX">>, <<"LIST">>, <<>>),
   data_itemnumoflist |-> Entry("item_num_of_list", <<"ITEM">>, <<"LIST">>, <<>>),
   data_lengthoflist |-> Entry("length_of_list", <<>>, <<"LIST">>, <<>>),
   data_listcontainsitem |-> Entry("list_contains", <<"ITEM">>, <<"LIST">>, <<>>),
   data_showlist |-> Entry("show_list", <<>>, <<"LIST">>, <<>>),
   data_hidelist |-> Entry("hide_list", <<>>, <<"LIST">>, <<>>),
   procedures_definition |-> Entry("define_", <<>>, <<>>, <<>>),
   procedures_call |-> Entry("call_", <<>>, <<>>, <<>>)]

\* MATHOP_MAP
MATHOP_MAP ==
  ("abs" :> "abs") @@ ("floor" :> "floor") @@ ("ceiling" :> "ceiling") @@ ("sqrt" :> "sqrt")
    @@ ("sin" :> "sin") @@ ("cos" :> "cos") @@ ("tan" :> "tan") @@ ("asin" :> "asin")
    @@ ("acos" :> "acos") @@ ("atan" :> "atan") @@ ("ln" :> "ln") @@ ("log" :> "log")
    @@ ("e ^" :> "exp") @@ ("e^" :> "exp") @@ ("10 ^" :> "pow10") @@ ("10^" :> "pow10")

\* The reporters of _convert_reporter that are written left op right.
InfixReporters ==
  [operator_add |-> [l |-> "NUM1", r |-> "NUM2", open |-> "(", op |-> " + ", close |-> ")"],
   operator_subtract |-> [l |-> "NUM1", r |-> "NUM2", open |-> "(", op |-> " - ", close |-> ")"],
   operator_multiply |-> [l |-> "NUM1", r |-> "NUM2", open |-> "(", op |-> " * ", close |-> ")"],
   operator_divide |-> [l |-> "NUM1", r |-> "NUM2", open |-> "(", op |-> " / ", close |-> ")"],
   operator_mod |-> [l |-> "NUM1", r |-> "NUM2", open |-> "(", op |-> " % ", close |-> ")"],
   operator_gt |-> [l |-> "OPERAND1", r |-> "OPERAND2", open |-> "", op |-> " > ", close |-> ""],
   operator_lt |-> [l |-> "OPERAND1", r |-> "OPERAND2", open |-> "", op |-> " < ", close |-> ""],
   operator_equals |-> [l |-> "OPERAND1", r |-> "OPERAND2", open |-> "", op |-> " == ",
                        close |-> ""],
   operator_and |-> [l |-> "OPERAND1", r |-> "OPERAND2", open |-> "(", op |-> " and ",
                     close |-> ")"],
   operator_or |-> [l |-> "OPERAND1", r |-> "OPERAND2", open |-> "(", op |-> " or ",
                    close |-> ")"]]

\* The reporters of _convert_reporter that are written f(input, ...).
CallReporters ==
  [operator_random |-> [func |-> "pick_random", inputs |-> <<"FROM", "TO">>],
   operator_round |-> [func |-> "round", inputs |-> <<"NUM">>],
   operator_join |-> [func |-> "join", inputs |-> <<"STRING1", "STRING2">>],
   operator_letter_of |-> [func |-> "letter_of", inputs |-> <<"LETTER", "STRING">>],
   operator_length |-> [func |-> "length", inputs |-> <<"STRING">>],
   operator_contains |-> [func |-> "contains", inputs |-> <<"STRING1", "STRING2">>],
   sensing_touchingobject |-> [func |-> "touching", inputs |-> <<"TOUCHINGOBJECTMENU">>],
   sensing_touchingcolor |-> [func |-> "touching_color", inputs |-> <<"COLOR">>],
   sensing_coloristouchingcolor |-> [func |-> "color_touching_color",
                                     inputs |-> <<"COLOR", "COLOR2">>],
   sensing_keypressed |-> [func |-> "key_pressed", inputs |-> <<"KEY_OPTION">>],
   sensing_distanceto |-> [func |-> "distance_to", inputs |-> <<"DISTANCETOMENU">>],
   sensing_mousedown |-> [func |-> "mouse_down", inputs |-> <<>>],
   sensing_mousex |-> [func |-> "mouse_x", inputs |-> <<>>],
   sensing_mousey |-> [func |-> "mouse_y", inputs |-> <<>>],
   sensing_answer |-> [func |-> "answer", inputs |-> <<>>],
   sensing_loudness |-> [func |-> "loudness", inputs |-> <<>>],
   sensing_timer |-> [func |-> "timer", inputs |-> <<>>],
   sensing_dayssince2000 |-> [func |-> "days_since_2000", inputs |-> <<>>],
   sensing_username |-> [func |-> "username", inputs |-> <<>>],
   motion_xposition |-> [func |-> "x_position", inputs |-> <<>>],
   motion_yposition |-> [func |-> "y_position", inputs |-> <<>>],
   motion_direction |-> [func |-> "direction", inputs |-> <<>>],
   looks_size |-> [func |-> "size", inputs |-> <<>>],
   sound_volume |-> [func |-> "volume", inputs |-> <<>>]]

\* func_map of the sensing_current branch
CurrentMap == [YEAR |-> "current_year", MONTH |-> "current_month", DATE |-> "current_date",
               DAYOFWEEK |-> "current_day", HOUR |-> "current_hour",
               MINUTE |-> "current_minute", SECOND |-> "current_second"]

\* The menu blocks of _convert_reporter: the field read, and the values
\* that are renamed.
MenuReporters ==
  [motion_goto_menu |-> [field |-> "TO", names |-> [_random_ |-> "random", _mouse_ |-> "mouse"]],
   motion_glideto_menu |-> [field |-> "TO",
                            names |-> [_random_ |-> "random", _mouse_ |-> "mouse"]],
   motion_pointtowards_menu |-> [field |-> "TOWARDS",
                                 names |-> [_random_ |-> "random", _mouse_ |-> "mouse"]],
   sensing_touchingobjectmenu |-> [field |-> "TOUCHINGOBJECTMENU",
                                   names |-> [_mouse_ |-> "mouse", _edge_ |-> "edge"]],
   sensing_distancetomenu |-> [field |-> "DISTANCETOMENU", names |-> [_mouse_ |-> "mouse"]],
   sensing_keyoptions |-> [field |-> "KEY_OPTION", names |-> <<>>],
   sound_sounds_menu |-> [field |-> "SOUND_MENU", names |-> <<>>],
   looks_costume |-> [field |-> "COSTUME", names |-> <<>>],
   looks_backdrops |-> [field |-> "BACKDROP", names |-> <<>>],
   control_create_clone_of_menu |-> [field |-> "CLONE_OPTION",
                                     names |-> [_myself_ |-> "myself"]],
   sensing_of_object_menu |-> [field |-> "OBJECT", names |-> <<>>]]

RECURSIVE ConvertReporter(_, _)
RECURSIVE ConvertBlockChain(_, _, _)

\* _get_input_value: an absent input is 0, a block id is a reporter, a list
\* is a literal, and str(None) is left of an input [3, None, ...].
GetInputValue(blocks, inputs, key) ==
  IF ~Has(inputs, key) THEN "0"
  ELSE IF inputs[key].block # Null THEN ConvertReporter(blocks, inputs[key].block)
  ELSE IF inputs[key].shadow = 1 /\ inputs[key].lit # NoLit THEN ConvertLiteral(inputs[key].lit)
  ELSE "None"

\* [self._get_input_value(inputs, name) for name in names]
InputValues(blocks, inputs, names) ==
  [i \in 1..Len(names) |-> GetInputValue(blocks, inputs, Slot(names[i]))]

\* _get_condition
GetCondition(blocks, inputs, name) ==
  IF Has(inputs, Slot(name)) /\ inputs[Slot(name)].block # Null
  THEN ConvertReporter(blocks, inputs[Slot(name)].block)
  ELSE "True"

\* The menu target of the three motion menus: TO, or TOWARDS when TO is ''.
MenuValue(fields, entry) ==
  IF entry.field = "TOWARDS" /\ GetFieldValue(fields, "TO") # ""
  THEN GetFieldValue(fields, "TO")
  ELSE IF entry.field = "TO" /\ GetFieldValue(fields, "TO") = ""
  THEN GetFieldValue(fields, "TOWARDS")
  ELSE GetFieldValue(fields, entry.field)

\* The branches of _convert_reporter, for the block b.
ReporterText(blocks, b) ==
  LET In(name) == GetInputValue(blocks, b.inputs, Slot(name))
      Fl(name) == GetFieldValue(b.fields, name)
      Infix(e) == e.open \o In(e.l) \o e.op \o In(e.r) \o e.close
      Call(e) == e.func \o "(" \o JoinWith(InputValues(blocks, b.inputs, e.inputs), ", ") \o ")"
      Menu(e, value) == Quoted(Lookup(e.names, value))
      OfList(func, args) == func \o "(" \o JoinWith(args, ", ") \o ")"
  IN CASE b.opcode = "data_variable" -> ToIdentifier(Fl("VARIABLE"))
       [] b.opcode = "argument_reporter_string_number" -> ToIdentifier(Fl("VALUE"))
       [] b.opcode \in DOMAIN InfixReporters -> Infix(InfixReporters[b.opcode])
       [] b.opcode = "operator_not" -> "not " \o In("OPERAND")
       [] b.opcode \in DOMAIN CallReporters -> Call(CallReporters[b.opcode])
       [] b.opcode = "operator_mathop" ->
            Lookup(MATHOP_MAP, Fl("OPERATOR")) \o "(" \o In("NUM") \o ")"
       [] b.opcode = "sensing_current" ->
            (IF Fl("CURRENTMENU") \in DOMAIN CurrentMap THEN CurrentMap[Fl("CURRENTMENU")]
             ELSE "current_year") \o "()"
       [] b.opcode = "sensing_of" ->
            "property_of(" \o Quoted(Fl("PROPERTY")) \o ", " \o In("OBJECT") \o ")"
       [] b.opcode = "looks_costumenumbername" ->
            IF Fl("NUMBER_NAME") = "name" THEN "costume_name()" ELSE "costume_number()"
       [] b.opcode = "looks_backdropnumbername" ->
            IF Fl("NUMBER_NAME") = "name" THEN "backdrop_name()" ELSE "backdrop_number()"
       [] b.opcode = "data_itemoflist" ->
            OfList("item_of_list", <<In("INDEX"), Quoted(Fl("LIST"))>>)
       [] b.opcode = "data_lengthoflist" -> OfList("length_of_list", <<Quoted(Fl("LIST"))>>)
       [] b.opcode = "data_itemnumoflist" ->
            OfList("item_num_of_list", <<In("ITEM"), Quoted(Fl("LIST"))>>)
       [] b.opcode = "data_listcontainsitem" ->
            OfList("list_contains", <<Quoted(Fl("LIST")), In("ITEM")>>)
       [] b.opcode \in DOMAIN MenuReporters ->
            Menu(MenuReporters[b.opcode], MenuValue(b.fields, MenuReporters[b.opcode]))
       [] OTHER -> "/* " \o b.opcode \o " */"

\* _convert_reporter
ConvertReporter(blocks, id) == ReporterText(blocks, GetBlock(blocks, id))

RECURSIVE CallArguments(_, _, _, _)
\* The loop of the procedures_call branch over the argument ids.
CallArguments(blocks, inputs, arg_ids, i) ==
  IF i > Len(arg_ids) THEN <<>>
  ELSE (IF Has(inputs, ArgKey(arg_ids[i]))
        THEN <<GetInputValue(blocks, inputs, ArgKey(arg_ids[i]))>> ELSE <<>>)
         \o CallArguments(blocks, inputs, arg_ids, i + 1)

RECURSIVE QuotedFields(_, _, _)
\* The loop over field_names of the default branch: empty values are skipped.
QuotedFields(fields, names, i) ==
  IF i > Len(names) THEN <<>>
  ELSE (IF GetFieldValue(fields, names[i]) # ""
        THEN <<Quoted(GetFieldValue(fields, names[i]))>> ELSE <<>>)
         \o QuotedFields(fields, names, i + 1)

\* The opcodes _convert_block writes as func("list") or func(inputs, "list").
ListStatements ==
  [data_addtolist |-> [func |-> "add_to_list", inputs |-> <<"ITEM">>],
   data_deleteoflist |-> [func |-> "delete_of_list", inputs |-> <<"INDEX">>],
   data_deletealloflist |-> [func |-> "delete_all_of_list", inputs |-> <<>>],
   data_insertatlist |-> [func |-> "insert_at_list", inputs |-> <<"INDEX", "ITEM">>],
   data_replaceitemoflist |-> [func |-> "replace_item_of_list", inputs |-> <<"INDEX", "ITEM">>],
   data_showlist |-> [func |-> "show_list", inputs |-> <<>>],
   data_hidelist |-> [func |-> "hide_list", inputs |-> <<>>]]

\* _convert_block: the lines of one block.
ConvertBlock(blocks, b, indent) ==
  LET prefix == Prefix(indent)
      In(name) == GetInputValue(blocks, b.inputs, Slot(name))
      Fl(name) == GetFieldValue(b.fields, name)
      Line(text) == <<prefix \o text>>
      Sub(name) ==
        IF GetSubstack(b.inputs, name) # Null
        THEN ConvertBlockChain(blocks, GetSubstack(b.inputs, name), indent + 1)
        ELSE Line("    pass")
      Stmt(func, args) == Line(func \o "(" \o JoinWith(args, ", ") \o ")")
      Default(e) ==
        Stmt(e.func, QuotedFields(b.fields, e.fields, 1)
                       \o InputValues(blocks, b.inputs, e.inputs)
                       \o InputValues(blocks, b.inputs, e.field_inputs))
      OfList(e) == Stmt(e.func, InputValues(blocks, b.inputs, e.inputs) \o <<Quoted(Fl("LIST"))>>)
  IN CASE b.opcode = "control_forever" -> Line("while True:") \o Sub("SUBSTACK")
       [] b.opcode = "control_repeat" ->
            Line("for i in range(" \o In("TIMES") \o "):") \o Sub("SUBSTACK")
       [] b.opcode = "control_repeat_until" ->
            Line("while not (" \o GetCondition(blocks, b.inputs, "CONDITION") \o "):")
              \o Sub("SUBSTACK")
       [] b.opcode = "control_if" ->
            Line("if " \o GetCondition(blocks, b.inputs, "CONDITION") \o ":") \o Sub("SUBSTACK")
       [] b.opcode = "control_if_else" ->
            Line("if " \o GetCondition(blocks, b.inputs, "CONDITION") \o ":") \o Sub("SUBSTACK")
              \o Line("else:") \o Sub("SUBSTACK2")
       [] b.opcode = "data_setvariableto" ->
            Line(ToIdentifier(Fl("VARIABLE")) \o " = " \o In("VALUE"))
       [] b.opcode = "data_changevariableby" ->
            Line(ToIdentifier(Fl("VARIABLE")) \o " += " \o In("VALUE"))
       [] b.opcode \in DOMAIN ListStatements -> OfList(ListStatements[b.opcode])
       [] b.opcode = "procedures_call" ->
            IF b.mutation.proccode.name = "" THEN <<>>
            ELSE Stmt(b.mutation.proccode.name,
                      CallArguments(blocks, b.inputs, b.mutation.argumentids, 1))
       [] b.opcode \in {"looks_changeeffectby", "looks_seteffectto"} ->
            Stmt(OPCODE_MAP[b.opcode].func,
                 <<Quoted(GetFieldValueLower(b.fields, "EFFECT")),
                   IF Has(b.inputs, Slot("CHANGE")) THEN In("CHANGE") ELSE In("VALUE")>>)
       [] b.opcode \in {"sound_changeeffectby", "sound_seteffectto"} ->
            Stmt(OPCODE_MAP[b.opcode].func, <<Quoted(GetFieldValueLower(b.fields, "EFFECT")), In("VALUE")>>)
       [] b.opcode = "looks_gotofrontback" ->
            Stmt(OPCODE_MAP[b.opcode].func, <<Quoted(Fl("FRONT_BACK"))>>)
       [] b.opcode = "looks_goforwardbackwardlayers" ->
            Stmt(OPCODE_MAP[b.opcode].func, <<Quoted(GetFieldValueLower(b.fields, "FORWARD_BACKWARD")), In("NUM")>>)
       [] b.opcode = "control_stop" -> Stmt("stop", <<Quoted(Fl("STOP_OPTION"))>>)
       [] b.opcode = "sensing_of" ->
            Stmt("property_of", <<Quoted(Fl("PROPERTY")), In("OBJECT")>>)
       [] b.opcode = "control_wait_until" ->
            Stmt("wait_until", <<GetCondition(blocks, b.inputs, "CONDITION")>>)
       [] b.opcode \in DOMAIN OPCODE_MAP -> Default(OPCODE_MAP[b.opcode])
       [] OTHER -> Line("# Unknown: " \o b.opcode)

\* _convert_block_chain
ConvertBlockChain(blocks, id, indent) ==
  IF id = Null THEN <<>>
  ELSE ConvertBlock(blocks, GetBlock(blocks, id), indent)
         \o ConvertBlockChain(blocks, GetBlock(blocks, id).next, indent)

\* The prototype of a procedures_definition hat ({} when it has none).
PrototypeOf(blocks, hat) ==
  IF GetSubstack(hat.inputs, "custom_block") # Null
  THEN GetBlock(blocks, GetSubstack(hat.inputs, "custom_block")) ELSE NoBlock

\* _get_method_name ('' for a hat it has no name for)
GetMethodName(blocks, hat) ==
  CASE hat.opcode = "event_whenflagclicked" -> "when_flag_clicked"
    [] hat.opcode = "event_whenkeypressed" ->
         "when_key_" \o KeyName(GetFieldValue(hat.fields, "KEY_OPTION"))
    [] hat.opcode = "event_whenthisspriteclicked" -> "when_clicked"
    [] hat.opcode = "event_whenbroadcastreceived" ->
         "when_broadcast_" \o ToIdentifier(GetFieldValue(hat.fields, "BROADCAST_OPTION"))
    [] hat.opcode = "control_start_as_clone" -> "when_i_start_as_clone"
    [] hat.opcode = "procedures_definition" ->
         IF PrototypeOf(blocks, hat).mutation.proccode.name # ""
         THEN "define_" \o PrototypeOf(blocks, hat).mutation.proccode.name
         ELSE "define_custom"
    [] OTHER -> ""

\* _get_method_params
GetMethodParams(blocks, hat) ==
  IF hat.opcode = "procedures_definition"
  THEN PrototypeOf(blocks, hat).mutation.argumentnames ELSE <<>>

\* _convert_script: the lines of a method (none for a hat without a name).
ConvertScript(blocks, hat) ==
  LET Body(lines) == IF lines = <<>> THEN <<"        pass">> ELSE lines
      Def(method_name, params) ==
        <<"    def " \o method_name \o "(self"
            \o (IF params = <<>> THEN "" ELSE ", " \o JoinWith(params, ", ")) \o "):">>
          \o Body(ConvertBlockChain(blocks, hat.next, 2))
  IN IF GetMethodName(blocks, hat) = "" THEN <<>>
     ELSE Def(GetMethodName(blocks, hat), GetMethodParams(blocks, hat))

\* _find_hat_blocks
FindHatBlocks(blocks) ==
  SortedIds({id \in DOMAIN blocks :
               blocks[id].topLevel
                 /\ blocks[id].opcode \in {"event_whenflagclicked", "event_whenkeypressed",
                                           "event_whenthisspriteclicked",
                                           "event_whenbackdropswitchesto",
                                           "event_whengreaterthan",
                                           "event_whenbroadcastreceived",
                                           "control_start_as_clone", "procedures_definition"}})

RECURSIVE ConvertScripts(_, _, _)
\* The loop of _convert_sprite over the hats.
ConvertScripts(blocks, hats, i) ==
  IF i > Len(hats) THEN <<>>
  ELSE ConvertScript(blocks, blocks[hats[i]]) \o ConvertScripts(blocks, hats, i + 1)

\* The declarations of the variables and of the lists of a target.
VariableLines(variables, ids, indent) ==
  [i \in 1..Len(ids) |->
     indent \o ToIdentifier(variables[ids[i]].name) \o " = " \o FormatValue(variables[ids[i]].value)]
ListLines(lists, ids, indent) ==
  [i \in 1..Len(ids) |-> indent \o ToIdentifier(lists[ids[i]].name) \o " = []"]

\* _convert_sprite
ConvertSprite(target) ==
  LET Scripts(hats) ==
        IF hats = <<>> THEN <<"    pass">> ELSE ConvertScripts(target.blocks, hats, 1)
  IN <<"class " \o ToIdentifier(target.name) \o ":">>
       \o VariableLines(target.variables, SortedIds(DOMAIN target.variables), "    ")
       \o ListLines(target.lists, SortedIds(DOMAIN target.lists), "    ")
       \o (IF DOMAIN target.variables # {} \/ DOMAIN target.lists # {} THEN <<"">> ELSE <<>>)
       \o Scripts(FindHatBlocks(target.blocks))

RECURSIVE ConvertSprites(_, _)
\* The loop of convert_project over the targets that are not the stage.
ConvertSprites(targets, i) ==
  IF i > Len(targets) THEN <<>>
  ELSE (IF targets[i].isStage THEN <<>> ELSE ConvertSprite(targets[i]) \o <<"">>)
         \o ConvertSprites(targets, i + 1)

\* The global variables and lists that convert_project reads from the stage.
StageLines(stage) ==
  (IF DOMAIN stage.variables # {}
   THEN <<"# Global variables">>
          \o VariableLines(stage.variables, SortedIds(DOMAIN stage.variables), "") \o <<"">>
   ELSE <<>>)
    \o (IF DOMAIN stage.lists # {}
        THEN <<"# Global lists">>
               \o ListLines(stage.lists, SortedIds(DOMAIN stage.lists), "") \o <<"">>
        ELSE <<>>)

\* convert_project: the lines of the text it returns.
ConvertProject(targets) ==
  LET stages == {i \in 1..Len(targets) : targets[i].isStage}
      first == CHOOSE i \in stages : \A j \in stages : i <= j
  IN <<"\"\"\"", "Scratch project converted to Python", "\"\"\"", "",
       "from scratch.dsl import *", "">>
       \o (IF stages # {} THEN StageLines(targets[first]) ELSE <<>>)
       \o ConvertSprites(targets, 1)

\* ------------------------------------------------------------ the pipeline
\* program: the module being compiled (its top-level statements); pc: the
\* next one to visit; t: the ScratchTranspiler object; phase: how far
\* transpile_to_json has got; project: the targets of the project.json;
\* python: the lines of the text converted from it; roundtrip: the targets
\* of the project compiled from that text.
VARIABLES program, pc, t, phase, project, python, roundtrip

vars == <<program, pc, t, phase, project, python, roundtrip>>

InitWith(programs) ==
  /\ program \in programs
  /\ pc = 1
  /\ t = FreshTranspiler
  /\ phase = "visit"
  /\ project = <<>>
  /\ python = <<>>
  /\ roundtrip = <<>>

Visiting(kinds) ==
  /\ phase = "visit"
  /\ ~t.raised
  /\ pc <= Len(program)
  /\ program[pc].k \in kinds

\* Module.body: a class.
ClassDefStep ==
  /\ Visiting({"ClassDef"})
  /\ t' = Visit(t, program[pc]).t
  /\ pc' = pc + 1
  /\ UNCHANGED <<program, phase, project, python, roundtrip>>

\* Module.body: a function.
FunctionDefStep ==
  /\ Visiting({"FunctionDef"})
  /\ t' = Visit(t, program[pc]).t
  /\ pc' = pc + 1
  /\ UNCHANGED <<program, phase, project, python, roundtrip>>

\* Module.body: any other statement.
StatementStep ==
  /\ Visiting({"Assign", "AugAssign", "For", "While", "If", "Expr", "Pass"})
  /\ t' = Visit(t, program[pc]).t
  /\ pc' = pc + 1
  /\ UNCHANGED <<program, phase, project, python, roundtrip>>

\* transpile returns self.targets.
TranspileStep ==
  /\ phase = "visit"
  /\ ~t.raised
  /\ pc > Len(program)
  /\ t' = TranspileReturn(t)
  /\ phase' = "targets"
  /\ UNCHANGED <<program, pc, project, python, roundtrip>>

\* create_project_json(targets)
ProjectStep ==
  /\ phase = "targets"
  /\ project' = CreateProjectJson(t.targets)
  /\ phase' = "project"
  /\ UNCHANGED <<program, pc, t, python, roundtrip>>

\* ScratchToPython().convert_project(project)
ConvertStep ==
  /\ phase = "project"
  /\ python' = ConvertProject(project)
  /\ phase' = "python"
  /\ UNCHANGED <<program, pc, t, project, roundtrip>>

Next == ClassDefStep \/ FunctionDefStep \/ StatementStep \/ TranspileStep \/ ProjectStep

\* The pipeline for a module that holds classes only.
NextClass == ClassDefStep \/ TranspileStep \/ ProjectStep

\* The round trip of a module that holds classes only.
NextRoundTrip == ClassDefStep \/ TranspileStep \/ ProjectStep \/ ConvertStep

\* ------------------------------------------------------- the programs
\* The sequences over S of length 1 .. n.
Seqs(S, n) == UNION {[1..m -> S] : m \in 1..n}

WhenFlagClicked == FName("when_", "flag_clicked")
Move10 == SExpr(ECall("move", <<ENum(10)>>))
SayHi == SExpr(ECall("say", <<EStr("Hi")>>))
XGt1 == ECompare("Gt", EName("x"), ENum(1))

\* class Cat with the one method when_flag_clicked.
CatScript(body) == <<SClassDef("Cat", <<SFunctionDef(WhenFlagClicked, <<>>, body)>>)>>

\* Scripts: a statement, perhaps between two calls; the statement is simple,
\* a `while True:` loop, or a for / if / if-else / while whose body is a list
\* of at most MaxStmts simple statements and `while True:` loops.
MaxStmts == 3
Leaves == {Move10, SayHi, SPass, SAssign("x", EBinOp("Add", EName("y"), ENum(1)))}
Forevers == {SWhile(ETrue, <<SExpr(ECall("turn_right", <<ENum(15)>>))>>)}
InnerBodies == Seqs(Leaves \cup Forevers, MaxStmts)
Containers ==
  {SFor(ECall("range", <<ENum(3)>>), b) : b \in InnerBodies}
    \cup {SFor(EName("items"), b) : b \in InnerBodies}
    \cup {SIf(XGt1, b, <<>>) : b \in InnerBodies}
    \cup {SIf(XGt1, <<Move10>>, b) : b \in InnerBodies}
    \cup {SWhile(XGt1, b) : b \in InnerBodies}
ScriptBodies ==
  {pre \o <<s>> \o post : pre \in {<<>>, <<Move10>>},
                          s \in Leaves \cup Forevers \cup Containers,
                          post \in {<<>>, <<SayHi>>}}
ScriptPrograms == {CatScript(b) : b \in ScriptBodies}

InitScripts == InitWith(ScriptPrograms)
SpecScripts == InitScripts /\ [][NextClass]_vars

\* Conditions: an if, a while or a wait_until guarded by a comparison of two
\* of the operand kinds _extract_value classifies, or by a chain of at most
\* MaxOperands conditions of the kinds _process_condition dispatches on.
MaxOperands == 3
Operands == {ENum(1), EStr("a"), EName("x"), EName("y"), EUnary("USub", ENum(2)),
             ECall("x_position", <<>>), EBinOp("Add", EName("x"), ENum(1))}
CompareOps == {"Gt", "Lt", "Eq", "NotEq", "GtE", "LtE"}
Comparisons == {ECompare(op, a, b) : op \in CompareOps, a \in Operands, b \in Operands}
MouseDown == ECall("mouse_down", <<>>)
Conditions == {XGt1, ECompare("NotEq", EName("y"), ENum(2)), MouseDown, ETrue,
               EUnary("Not", MouseDown), EBoolOp("Or", <<MouseDown, XGt1>>)}
Chains == {EBoolOp(op, vs) : op \in {"And", "Or"},
                             vs \in UNION {[1..m -> Conditions] : m \in 2..MaxOperands}}
Guarded(c) == {SIf(c, <<Move10>>, <<>>), SWhile(c, <<Move10>>),
               SExpr(ECall("wait_until", <<c>>))}
CondPrograms == {CatScript(<<s>>) : s \in UNION {Guarded(c) : c \in Comparisons \cup Chains}}

InitCond == InitWith(CondPrograms)
SpecCond == InitCond /\ [][NextClass]_vars

\* Procedures: class Cat with at most MaxMethods of these methods, in any
\* order.  helper and jump take parameters, show is named like a built-in
\* call, and the two hats call the procedures by their registered names.
MaxMethods == 3
Helper == SFunctionDef(FName("", "helper"), <<"steps">>,
                       <<SExpr(ECall("move", <<EName("steps")>>))>>)
Jump == SFunctionDef(FName("define_", "jump"), <<"n", "m">>,
                     <<SAssign("x", EName("n")),
                       SExpr(ECall("change_y", <<EBinOp("Add", EName("m"), ENum(1))>>))>>)
Show == SFunctionDef(FName("", "show"), <<>>, <<SayHi>>)
Reset == SFunctionDef(FName("", "reset"), <<>>, <<SExpr(ECall("helper", <<ENum(2)>>))>>)
FlagCalls == SFunctionDef(WhenFlagClicked, <<>>,
                          <<SAssign("steps", ENum(1)), SExpr(ECall("helper", <<ENum(5)>>)),
                            SExpr(ECall("show", <<>>))>>)
KeyCalls == SFunctionDef(FName("when_key_", "space"), <<>>,
                         <<SExpr(ECall("jump", <<ENum(1), ENum(2)>>)),
                           SExpr(ECall("reset", <<>>))>>)
Methods == {Helper, Jump, Show, Reset, FlagCalls, KeyCalls}
MethodLists == {ms \in Seqs(Methods, MaxMethods) :
                  \A i, j \in DOMAIN ms : ms[i] = ms[j] => i = j}
ProcPrograms == {<<SClassDef("Cat", ms)>> : ms \in MethodLists}

InitProc == InitWith(ProcPrograms)
SpecProc == InitProc /\ [][NextClass]_vars

\* Procedure names used twice: class Cat with at most MaxMethods of these
\* methods, in any order and with repeats.  foo and define_foo register the
\* same name foo, and the two hats call it.
Foo == SFunctionDef(FName("", "foo"), <<"a">>, <<SExpr(ECall("move", <<EName("a")>>))>>)
DefineFoo == SFunctionDef(FName("define_", "foo"), <<"a">>,
                          <<SExpr(ECall("turn_right", <<EName("a")>>))>>)
FlagCallsFoo == SFunctionDef(WhenFlagClicked, <<>>, <<SExpr(ECall("foo", <<ENum(1)>>))>>)
ClickCallsFoo == SFunctionDef(FName("when_", "clicked"), <<>>,
                              <<SExpr(ECall("foo", <<ENum(2)>>))>>)
RepeatedMethods == {Foo, DefineFoo, Helper, FlagCallsFoo, ClickCallsFoo}
RepeatedPrograms == {<<SClassDef("Cat", ms)>> : ms \in Seqs(RepeatedMethods, MaxMethods)}
InitRepeated == InitWith(RepeatedPrograms)
SpecRepeated == InitRepeated /\ [][NextClass]_vars

\* Unsupported constructs: class Cat with when_flag_clicked, whose body is
\* one or two of these statements.  **, << and the call unknown_fn are not
\* in the tables of the compiler, `is` is not in COMPARE_MAP, ~ is not a
\* negation.
PowerOfY == EBinOp("Pow", EName("y"), ENum(2))
OddStatements ==
  {SAssign("x", PowerOfY),
   SAssign("x", EBinOp("Add", ENum(1), ENum(2))),
   SAssign("x", ECall("unknown_fn", <<ENum(1)>>)),
   SAssign("x", EUnary("Invert", EName("y"))),
   SAugAssign("x", "Add", EBinOp("LShift", ENum(1), ENum(2))),
   SAugAssign("x", "Mult", PowerOfY),
   SExpr(ECall("move", <<PowerOfY>>)),
   SExpr(ECall("unknown_fn", <<ENum(1)>>)),
   SExpr(ECall("move", <<>>)),
   SIf(ECompare("Is", EName("x"), EName("y")), <<Move10>>, <<>>),
   SFor(EName("items"), <<Move10>>),
   SWhile(PowerOfY, <<Move10>>)}
OddPrograms ==
  {<<SClassDef("Cat", <<SFunctionDef(WhenFlagClicked, <<>>, body)>>)>> :
     body \in Seqs(OddStatements, 2)}
InitOdd == InitWith(OddPrograms)
SpecOdd == InitOdd /\ [][NextClass]_vars

\* Damaged documents: the project of class Cat with when_flag_clicked and
\* one of these bodies, in which one block that another block refers to (by
\* next or by an input) has been removed, or one block has lost its opcode.
DamagedBodies ==
  {<<SayHi, Move10>>,
   <<SIf(ECompare("Gt", EName("x"), ENum(1)), <<Move10>>, <<SayHi>>)>>,
   <<SFor(ECall("range", <<ENum(3)>>), <<Move10>>), SayHi>>,
   <<SExpr(ECall("move", <<EBinOp("Add", EName("x"), ENum(1))>>))>>,
   <<SExpr(ECall("go_to", <<EStr("mouse")>>)), SExpr(ECall("show", <<>>))>>,
   <<SWhile(ECompare("Lt", EName("x"), ENum(1)), <<SayHi>>), Move10>>,
   <<SWhile(ETrue, <<SIf(ECall("mouse_down", <<>>), <<SayHi>>, <<>>)>>)>>,
   <<SExpr(ECall("wait_until", <<ECompare("Gt", EName("x"), ENum(1))>>))>>,
   <<SAssign("x", ENum(1)), SAugAssign("x", "Add", EName("y"))>>}
DamagedPrograms ==
  {<<SClassDef("Cat", <<SFunctionDef(WhenFlagClicked, <<>>, body)>>)>> : body \in DamagedBodies}
\* transpile, for a module that is one class.
Transpiled(p) == TranspileReturn(Visit(FreshTranspiler, p[1]).t)
\* The ids that a next or an input of some block refers to.
Referenced(blocks) ==
  {id \in DOMAIN blocks :
     \E b \in DOMAIN blocks :
        \/ blocks[b].next = id
        \/ \E key \in DOMAIN blocks[b].inputs : blocks[b].inputs[key].block = id}
RemoveBlock(proj, id) ==
  [proj EXCEPT ![2].blocks = [b \in DOMAIN proj[2].blocks \ {id} |-> proj[2].blocks[b]]]
RemoveOpcode(proj, id) == [proj EXCEPT ![2].blocks[id].opcode = ""]
Damaged(proj) ==
  {RemoveBlock(proj, id) : id \in Referenced(proj[2].blocks)}
    \cup {RemoveOpcode(proj, id) : id \in DOMAIN proj[2].blocks}
InitDamaged ==
  /\ program \in DamagedPrograms
  /\ pc = 2
  /\ t = Transpiled(program)
  /\ phase = "project"
  /\ project \in Damaged(CreateProjectJson(t.targets))
  /\ python = <<>>
  /\ roundtrip = <<>>
SpecDamaged == InitDamaged /\ [][ConvertStep]_vars

\* Two runs: class Cat with the procedure helper and when_flag_clicked,
\* whose body is one or two of these statements; the second run draws its
\* tokens from another place, MaxStart at most.
MaxStart == 3
TwiceStatements ==
  {Move10, SayHi,
   SAssign("x", ENum(1)),
   SExpr(ECall("move", <<EBinOp("Add", EName("x"), ENum(1))>>)),
   SExpr(ECall("helper", <<ENum(2)>>)),
   SExpr(ECall("broadcast", <<EStr("go")>>)),
   SExpr(ECall("add_to_list", <<ENum(1), EStr("items")>>)),
   SExpr(ECall("go_to", <<EStr("mouse")>>)),
   SExpr(ECall("go_to", <<EBinOp("Add", EName("x"), ENum(1))>>)),
   SIf(ECompare("Gt", EName("x"), ENum(1)), <<Move10>>, <<SayHi>>)}
TwicePrograms ==
  {<<SClassDef("Cat", <<Helper, SFunctionDef(WhenFlagClicked, <<>>, body)>>)>> :
     body \in Seqs(TwiceStatements, 2)}
InitTwice == InitWith(TwicePrograms)
SpecTwice == InitTwice /\ [][NextClass]_vars

\* transpile of a module that is one class, with tokens start, start + 1, ...
TranspiledFrom(p, start) == TranspileReturn(Visit([FreshTranspiler EXCEPT !.nid = start], p[1]).t)

\* Method names: class Cat with at most MaxMethods of these methods, in any
\* order and with repeats, each with the body move(10).
NamedMethods ==
  {SFunctionDef(name, <<>>, <<Move10>>) :
     name \in {WhenFlagClicked, FName("when_key_", "space"), FName("when_key_", "up"),
               FName("when_", "clicked"), FName("when_backdrop_", "night"),
               FName("when_broadcast_", "go"), FName("when_", "i_start_as_clone"),
               FName("when_loudness_gt_", "10"), FName("when_timer_gt_", "5"),
               FName("when_", "other"), FName("", "helper"), FName("define_", "jump"),
               FName("__", "init__")}}
NamedPrograms == {<<SClassDef("Cat", ms)>> : ms \in Seqs(NamedMethods, MaxMethods)}
InitNamed == InitWith(NamedPrograms)
SpecNamed == InitNamed /\ [][NextClass]_vars

\* Nested scripts: a for / if / if-else / while container, perhaps between
\* two calls, whose body is at most MaxBody of: a call, pass, a `while True:`
\* loop, and a container of any of the four kinds whose own body is pass, a
\* call, a `while True:` loop, or a call and then a `while True:` loop.
MaxBody == 2
TurnForever == SWhile(ETrue, <<SExpr(ECall("turn_right", <<ENum(15)>>))>>)
ContainersOf(bodies) ==
  {SFor(ECall("range", <<ENum(3)>>), b) : b \in bodies}
    \cup {SIf(XGt1, b, <<>>) : b \in bodies}
    \cup {SIf(XGt1, <<Move10>>, b) : b \in bodies}
    \cup {SWhile(XGt1, b) : b \in bodies}
NestedInner == ContainersOf({<<SPass>>, <<Move10>>, <<TurnForever>>, <<Move10, TurnForever>>})
NestedOuter == ContainersOf(Seqs({Move10, SPass, TurnForever} \cup NestedInner, MaxBody))
NestedBodies ==
  {pre \o <<s>> \o post : pre \in {<<>>, <<Move10>>}, s \in NestedOuter,
                          post \in {<<>>, <<SayHi>>}}
NestedPrograms == {CatScript(b) : b \in NestedBodies}
InitNested == InitWith(NestedPrograms)
SpecNested == InitNested /\ [][NextClass]_vars

\* Broadcasts: class Cat, or class Cat and then class Dog, each with at
\* most MaxSenders methods that send or receive the messages go and stop.
MaxSenders == 2
Send(f, msg) == SExpr(ECall(f, <<EStr(msg)>>))
BroadcastMethods ==
  {SFunctionDef(WhenFlagClicked, <<>>, <<Send("broadcast", "go")>>),
   SFunctionDef(WhenFlagClicked, <<>>, <<Send("broadcast_and_wait", "go")>>),
   SFunctionDef(WhenFlagClicked, <<>>, <<Send("broadcast", "stop")>>),
   SFunctionDef(FName("when_broadcast_", "go"), <<>>, <<SayHi>>),
   SFunctionDef(FName("when_broadcast_", "stop"), <<>>, <<Send("broadcast", "go")>>),
   SFunctionDef(FName("when_", "clicked"), <<>>, <<Send("broadcast_and_wait", "stop")>>)}
BroadcastPrograms ==
  {<<SClassDef("Cat", b)>> : b \in Seqs(BroadcastMethods, MaxSenders)}
    \cup {<<SClassDef("Cat", b), SClassDef("Dog", c)>> :
            b \in Seqs(BroadcastMethods, MaxSenders), c \in Seqs(BroadcastMethods, MaxSenders)}
InitBroadcast == InitWith(BroadcastPrograms)
SpecBroadcast == InitBroadcast /\ [][NextClass]_vars

\* Variables and lists: class Cat whose script is at most MaxUses statements
\* that assign, augment, read, show or hide the variables x and y and add to
\* or show the lists items and more.
MaxUses == 3
YPlus1 == EBinOp("Add", EName("y"), ENum(1))
UseStatements ==
  {SAssign("x", ENum(5)), SAssign("x", EStr("a")), SAssign("x", EName("y")),
   SAssign("x", YPlus1), SAugAssign("x", "Add", ENum(1)), SAugAssign("x", "Sub", EName("y")),
   SAugAssign("x", "Mult", EName("y")),
   SExpr(ECall("show_variable", <<EStr("x")>>)), SExpr(ECall("hide_variable", <<EStr("y")>>)),
   SExpr(ECall("move", <<EName("y")>>)), SIf(EName("y"), <<Move10>>, <<>>),
   SExpr(ECall("add_to_list", <<EName("x"), EStr("items")>>)),
   SExpr(ECall("show_list", <<EStr("more")>>))}
UsePrograms == {CatScript(b) : b \in Seqs(UseStatements, MaxUses)}
InitUses == InitWith(UsePrograms)
SpecUses == InitUses /\ [][NextClass]_vars

\* Menu targets: class Cat whose script is, perhaps after a call, one call
\* of a function with a target menu, given a symbolic target, the name of a
\* sprite, or a symbolic target with a capital letter; the project is
\* compiled and then converted back.
MenuCalls == {"go_to", "glide_to", "point_towards", "touching", "distance_to", "create_clone"}
MenuTargets == {"mouse", "random", "edge", "myself", "Dog", "Mouse"}
MenuStatement(f, s) ==
  CASE f = "glide_to" -> SExpr(ECall(f, <<ENum(1), EStr(s)>>))
    [] f = "touching" -> SExpr(ECall("wait_until", <<ECall(f, <<EStr(s)>>)>>))
    [] f = "distance_to" -> SExpr(ECall("move", <<ECall(f, <<EStr(s)>>)>>))
    [] OTHER -> SExpr(ECall(f, <<EStr(s)>>))
MenuPrograms ==
  {CatScript(pre \o <<MenuStatement(f, s)>>) :
     pre \in {<<>>, <<Move10>>}, f \in MenuCalls, s \in MenuTargets}
InitMenus == InitWith(MenuPrograms)
SpecMenus == InitMenus /\ [][NextRoundTrip]_vars

\* The classes of NamedPrograms, compiled and then converted back.
SpecHats == InitNamed /\ [][NextRoundTrip]_vars

\* Lossless round trips: class Cat with the procedure helper and
\* when_flag_clicked, whose body is MaxLossless or fewer of these statements;
\* the project is compiled, converted to Python, and the text compiled again.
MaxLossless == 2
LosslessStatements ==
  {SAssign("x", ENum(5)), SAssign("x", EBinOp("Add", EName("y"), ENum(1))),
   SAugAssign("x", "Add", ENum(1)), SAugAssign("x", "Sub", ENum(1)),
   SFor(ECall("range", <<ENum(3)>>), <<Move10>>),
   SWhile(ETrue, <<Move10>>), SWhile(XGt1, <<Move10>>),
   SIf(XGt1, <<Move10>>, <<SayHi>>),
   SIf(ECompare("GtE", EName("x"), ENum(1)), <<Move10>>, <<>>),
   SIf(EBoolOp("And", <<XGt1, ECompare("Lt", EName("y"), ENum(2))>>), <<Move10>>, <<>>),
   Move10, SExpr(ECall("helper", <<ENum(1)>>))}
LosslessPrograms ==
  {<<SClassDef("Cat", <<Helper, SFunctionDef(WhenFlagClicked, <<>>, body)>>)>> :
     body \in Seqs(LosslessStatements, MaxLossless)}
InitLossless == InitWith(LosslessPrograms)

\* ast.parse, on the texts the converter writes for these classes: the tree
\* of a line is the tree whose text is the line.  The expressions and the
\* statement heads that such a text can hold:
ParsedValues ==
  {ENum(n) : n \in {1, 2, 3, 5, 10}} \cup {EUnary("USub", ENum(1)), EStr("Hi")}
    \cup {EName(v) : v \in {"x", "y", "steps"}}
    \cup {EBinOp("Add", EName("y"), ENum(1))}
ParsedComparisons ==
  {ECompare(op, EName(v), ENum(n)) : op \in {"Gt", "Lt", "Eq"}, v \in {"x", "y"}, n \in {1, 2}}
ParsedTests ==
  ParsedComparisons \cup {EUnary("Not", c) : c \in ParsedComparisons}
    \cup {EBoolOp("And", <<a, b>>) : a \in ParsedComparisons, b \in ParsedComparisons}
ParsedHeads ==
  {SAssign(v, e) : v \in {"x", "y"}, e \in ParsedValues}
    \cup {SAugAssign(v, "Add", e) : v \in {"x", "y"}, e \in ParsedValues}
    \cup {SExpr(ECall(f, <<e>>)) : f \in {"move", "say", "helper"}, e \in ParsedValues}
    \cup {SFor(ECall("range", <<e>>), <<>>) : e \in ParsedValues}
    \cup {SWhile(ETrue, <<>>), SPass}
    \cup {SWhile(EUnary("Not", c), <<>>) : c \in ParsedTests}
    \cup {SIf(c, <<>>, <<>>) : c \in ParsedTests}
ParsedMethods ==
  {SFunctionDef(WhenFlagClicked, <<>>, <<>>),
   SFunctionDef(FName("define_", "helper"), <<"steps">>, <<>>)}

RECURSIVE ExprText(_)
\* The text of an expression, with the parentheses the converter writes.
ExprText(e) ==
  LET OpText == [Add |-> " + ", Gt |-> " > ", Lt |-> " < ", Eq |-> " == ", And |-> " and "]
  IN CASE e.k = "Constant" -> (IF e.v.ty = "str" THEN Quoted(e.v.s) ELSE PyStr(e.v))
       [] e.k = "True" -> "True"
       [] e.k = "Name" -> e.id
       [] e.k = "UnaryOp" -> (IF e.op = "Not" THEN "not " ELSE "-") \o ExprText(e.operand)
       [] e.k = "BinOp" ->
            "(" \o ExprText(e.left) \o OpText[e.op] \o ExprText(e.right) \o ")"
       [] e.k = "Compare" -> ExprText(e.left) \o OpText[e.op] \o ExprText(e.right)
       [] e.k = "BoolOp" ->
            "(" \o ExprText(e.values[1]) \o OpText[e.op] \o ExprText(e.values[2]) \o ")"
       [] e.k = "Call" ->
            e.func \o "(" \o JoinWith([i \in 1..Len(e.args) |-> ExprText(e.args[i])], ", ")
              \o ")"

\* The first line of a statement; the test of a loop other than `while
\* True:` is written `not (...)`.
HeadText(s) ==
  CASE s.k = "Assign" -> s.target \o " = " \o ExprText(s.value)
    [] s.k = "AugAssign" -> s.target \o " += " \o ExprText(s.value)
    [] s.k = "Expr" -> ExprText(s.value)
    [] s.k = "For" -> "for i in range(" \o ExprText(s.iter.args[1]) \o "):"
    [] s.k = "While" ->
         IF s.test = ETrue THEN "while True:"
         ELSE "while not (" \o ExprText(s.test.operand) \o "):"
    [] s.k = "If" -> "if " \o ExprText(s.test) \o ":"
    [] s.k = "Pass" -> "pass"
DefText(m) ==
  "    def " \o FullName(m.name) \o "(self"
    \o (IF m.args = <<>> THEN "" ELSE ", " \o JoinWith(m.args, ", ")) \o "):"

RECURSIVE ParseBody(_, _, _)
\* The statements at one indentation from line i on, and the line after them.
ParseBody(lines, i, indent) ==
  LET Matches == {h \in ParsedHeads : lines[i] = Prefix(indent) \o HeadText(h)}
      head == CHOOSE h \in Matches : TRUE
      body == ParseBody(lines, i + 1, indent + 1)
      HasElse == /\ head.k = "If"
                 /\ body.next <= Len(lines)
                 /\ lines[body.next] = Prefix(indent) \o "else:"
      orelse == ParseBody(lines, body.next + 1, indent + 1)
      stmt == CASE head.k \in {"For", "While"} -> [head EXCEPT !.body = body.stmts]
                [] head.k = "If" ->
                     [head EXCEPT !.body = body.stmts,
                                  !.orelse = IF HasElse THEN orelse.stmts ELSE <<>>]
                [] OTHER -> head
      after == IF head.k \notin {"For", "While", "If"} THEN i + 1
               ELSE IF HasElse THEN orelse.next ELSE body.next
      rest == ParseBody(lines, after, indent)
  IN IF i > Len(lines) \/ Matches = {} THEN [stmts |-> <<>>, next |-> i]
     ELSE [stmts |-> <<stmt>> \o rest.stmts, next |-> rest.next]

RECURSIVE ParseMethods(_, _)
\* The methods of the class body from line i on; the assignments of the
\* class body are statements that visit_ClassDef does not visit.  ok: no
\* line is left over.
ParseMethods(lines, i) ==
  LET Matches == {m \in ParsedMethods : lines[i] = DefText(m)}
      head == CHOOSE m \in Matches : TRUE
      body == ParseBody(lines, i + 1, 2)
      rest == ParseMethods(lines, IF Matches # {} THEN body.next ELSE i + 1)
      Skipped == {""} \cup {"    " \o v \o " = " \o n : v \in {"x", "y", "steps"}, n \in {"0", "5"}}
  IN IF i > Len(lines) THEN [methods |-> <<>>, ok |-> TRUE]
     ELSE IF Matches # {}
     THEN [methods |-> <<[head EXCEPT !.body = body.stmts]>> \o rest.methods,
           ok |-> rest.ok /\ body.stmts # <<>>]
     ELSE [methods |-> rest.methods, ok |-> rest.ok /\ lines[i] \in Skipped]

\* The module of a text that holds the class Cat.
ParseModule(lines) ==
  LET class == CHOOSE i \in 1..Len(lines) : lines[i] = "class Cat:"
      parsed == ParseMethods(lines, class + 1)
  IN [tree |-> <<SClassDef("Cat", parsed.methods)>>, ok |-> parsed.ok]

\* transpile_to_json(python_code), the second half of roundtrip_sb3.
TranspileToJsonStep ==
  /\ phase = "python"
  /\ roundtrip' = IF ParseModule(python).ok
                  THEN CreateProjectJson(TranspiledFrom(ParseModule(python).tree, 1).targets)
                  ELSE <<>>
  /\ phase' = "roundtrip"
  /\ UNCHANGED <<program, pc, t, project, python>>

NextLossless ==
  ClassDefStep \/ TranspileStep \/ ProjectStep \/ ConvertStep \/ TranspileToJsonStep
SpecLossless == InitLossless /\ [][NextLossless]_vars

\* Every class of the three families.
InitClasses == InitWith(ScriptPrograms \cup CondPrograms \cup ProcPrograms)
SpecClasses == InitClasses /\ [][NextClass]_vars

\* Round trips: class Cat with one hat method whose body is MaxCalls or
\* fewer calls with literal arguments, each a call the compiler has an opcode
\* for; the project is compiled and then converted back.
MaxCalls == 2
RoundTripHats ==
  {WhenFlagClicked, FName("when_key_", "space"), FName("when_key_", "up"),
   FName("when_", "clicked"), FName("when_", "i_start_as_clone"),
   FName("when_broadcast_", "go"), FName("when_backdrop_", "night"),
   FName("when_timer_gt_", "5")}
RoundTripCalls ==
  {SayHi, Move10,
   SExpr(ECall("go_to_xy", <<ENum(1), ENum(2)>>)),
   SExpr(ECall("show", <<>>)),
   SExpr(ECall("wait", <<ENum(1)>>)),
   SExpr(ECall("go_to", <<EStr("mouse")>>)),
   SExpr(ECall("set_rotation_style", <<EStr("left-right")>>)),
   SExpr(ECall("stop", <<EStr("all")>>)),
   SExpr(ECall("broadcast", <<EStr("go")>>)),
   SExpr(ECall("change_layer", <<EStr("forward"), ENum(1)>>)),
   SExpr(ECall("change_effect", <<EStr("COLOR"), ENum(25)>>)),
   SExpr(ECall("set_tempo", <<ENum(60)>>)),
   SExpr(ECall("set_drag_mode", <<EStr("draggable")>>)),
   SExpr(ECall("start_sound", <<EStr("pop")>>))}
RoundTripPrograms ==
  {<<SClassDef("Cat", <<SFunctionDef(hat, <<>>, body)>>)>> :
     hat \in RoundTripHats, body \in Seqs(RoundTripCalls, MaxCalls)}
InitRoundTrip == InitWith(RoundTripPrograms)
SpecRoundTrip == InitRoundTrip /\ [][NextRoundTrip]_vars

\* Modules: at most MaxItems top-level items, each a class, a module-level
\* when_flag_clicked, another module-level function, or a statement.
MaxItems == 3
CatClass == SClassDef("Cat", <<SFunctionDef(WhenFlagClicked, <<>>, <<Move10>>)>>)
DogClass == SClassDef("Dog", <<SFunctionDef(FName("when_key_", "space"), <<>>, <<SayHi>>),
                               SFunctionDef(FName("", "helper"), <<>>, <<Move10>>)>>)
BirdClass == SClassDef("Bird", <<SFunctionDef(FName("when_", "i_start_as_clone"), <<>>,
                                              <<SayHi>>)>>)
ModuleHat == SFunctionDef(WhenFlagClicked, <<>>, <<SayHi>>)
ModuleDef == SFunctionDef(FName("", "setup"), <<>>, <<Move10>>)
Items == {CatClass, DogClass, BirdClass, ModuleHat, ModuleDef, SAssign("x", ENum(1)), Move10}
Programs == Seqs(Items, MaxItems)

Init == InitWith(Programs)
Spec == Init /\ [][Next]_vars

\* Modules whose items use lists and sounds: at most MaxItems of a class
\* that adds to a list and plays a sound, a class that does neither, a
\* module-level when_flag_clicked, and module-level statements that set a
\* variable, add to a list and play a sound.
AddItem == SExpr(ECall("add_to_list", <<ENum(1), EStr("items")>>))
AddMore == SExpr(ECall("add_to_list", <<ENum(2), EStr("more")>>))
PlayPop == SExpr(ECall("play_sound", <<EStr("pop")>>))
PlayMeow == SExpr(ECall("play_sound", <<EStr("meow")>>))
ListCat == SClassDef("Cat", <<SFunctionDef(WhenFlagClicked, <<>>, <<AddItem, PlayPop>>)>>)
ListItems == {ListCat, DogClass, ModuleHat, SAssign("x", ENum(1)), AddMore, PlayMeow}
ListPrograms == Seqs(ListItems, MaxItems)
InitLists == InitWith(ListPrograms)
SpecLists == InitLists /\ [][Next]_vars

\* Modules of at most MaxAug items with augmented assignments to x: every
\* operator of AugOps with a numeric literal, a string literal, True, a
\* variable reference, a compound expression and a reporter call as the
\* right-hand side, next to a class, a module-level when_flag_clicked and a
\* module-level call.
MaxAug == 2
AugOps == {"Add", "Sub", "Mult", "Div"}
AugValues == {ENum(5), EStr("a"), ETrue, EName("y"), EBinOp("Add", EName("y"), ENum(1)),
              ECall("x_position", <<>>)}
AugStatements == {SAugAssign("x", op, e) : op \in AugOps, e \in AugValues}
AugItems == AugStatements \cup {CatClass, ModuleHat, Move10}
AugPrograms == Seqs(AugItems, MaxAug)
InitAug == InitWith(AugPrograms)
SpecAug == InitAug /\ [][Next]_vars

\* ------------------------------------------------- reading a block graph
HatOpcodes == {"event_whenflagclicked", "event_whenkeypressed", "control_start_as_clone",
               "event_whenthisspriteclicked", "event_whenbackdropswitchesto",
               "event_whenbroadcastreceived", "event_whengreaterthan",
               "procedures_definition"}
Hats(blocks) == {id \in DOMAIN blocks : blocks[id].opcode \in HatOpcodes}
WithOpcode(blocks, opcodes) == {id \in DOMAIN blocks : blocks[id].opcode \in opcodes}

\* The block ids a block refers to.
InputRefs(b) == {b.inputs[k].block : k \in DOMAIN b.inputs} \ {Null}
Refs(b) == ({b.parent, b.next} \ {Null}) \cup InputRefs(b)

\* The blocks of a script: what next and SUBSTACK / SUBSTACK2 lead to.
ScriptSucc(blocks, id) ==
  ({blocks[id].next}
     \cup {blocks[id].inputs[k].block :
             k \in DOMAIN blocks[id].inputs \cap {Slot("SUBSTACK"), Slot("SUBSTACK2")}})
    \cap DOMAIN blocks
\* The blocks under a block: what next and any input lead to.
AnySucc(blocks, id) == ({blocks[id].next} \cup InputRefs(blocks[id])) \cap DOMAIN blocks

RECURSIVE ScriptReach(_, _)
ScriptReach(blocks, seen) ==
  LET more == UNION {ScriptSucc(blocks, id) : id \in seen} \ seen
  IN IF more = {} THEN seen ELSE ScriptReach(blocks, seen \cup more)

RECURSIVE AnyReach(_, _)
AnyReach(blocks, seen) ==
  LET more == UNION {AnySucc(blocks, id) : id \in seen} \ seen
  IN IF more = {} THEN seen ELSE AnyReach(blocks, seen \cup more)

\* The opcodes along the next chain that starts at id.
RECURSIVE ChainOpcodes(_, _)
ChainOpcodes(blocks, id) ==
  IF id \notin DOMAIN blocks THEN <<>>
  ELSE <<blocks[id].opcode>> \o ChainOpcodes(blocks, blocks[id].next)

\* The sprites of the assembled project, and the one sprite of a class module.
Sprites == {i \in 1..Len(project) : ~project[i].isStage}
CatBlocks == project[2].blocks

\* ---------------------------------------------------------------- C1
\* C1: after a class is compiled, no id of its target names two things (no
\* block is its own parent, successor or input, and no block id is also a
\* variable, list or broadcast id), and every non-null parent, next and
\* input block id names a block of that same target.
ClosedGraph(tg) ==
  \A id \in DOMAIN tg.blocks :
     /\ Refs(tg.blocks[id]) \subseteq DOMAIN tg.blocks
     /\ id \notin Refs(tg.blocks[id])
     /\ id # Null
     /\ id \notin DOMAIN tg.variables \cup DOMAIN tg.lists
     /\ \A name \in DOMAIN tg.broadcasts : tg.broadcasts[name] # id

C1_ReferencesResolve == \A i \in 1..Len(t.targets) : ClosedGraph(t.targets[i])

\* A class whose script holds a block with a parent, a successor and an
\* input block, among at least four blocks.
C1_Witness ==
  /\ phase = "project"
  /\ \E i \in 1..Len(t.targets) :
       /\ Cardinality(DOMAIN t.targets[i].blocks) >= 4
       /\ \E id \in DOMAIN t.targets[i].blocks :
            LET b == t.targets[i].blocks[id]
            IN b.parent # Null /\ b.next # Null /\ InputRefs(b) # {}

\* ---------------------------------------------------------------- C2
\* C2: in every target of the project, every hat block is top-level, has no
\* parent, and is the next of no block.
HatsAreRoots(blocks) ==
  \A h \in Hats(blocks) :
     /\ blocks[h].topLevel
     /\ blocks[h].parent = Null
     /\ \A id \in DOMAIN blocks : blocks[id].next # h

C2_HatsAreRoots == \A i \in Sprites : HatsAreRoots(project[i].blocks)

\* ---------------------------------------------------------------- C3
\* The text of a call statement whose arguments are literals.
SourceText(stmt) ==
  LET Arg(e) == IF e.v.ty = "str" THEN Quoted(e.v.s) ELSE PyStr(e.v)
  IN stmt.value.func \o "("
       \o JoinWith([i \in 1..Len(stmt.value.args) |-> Arg(stmt.value.args[i])], ", ") \o ")"

\* C3: for a class with one hat method whose body is a sequence of calls
\* with literal arguments, the text converted back from the compiled project
\* holds the class line, then the line of the method with the hat's name,
\* then one line per statement of the body with the same function name and
\* the same literal arguments, in the order of the statements.
C3_RoundTrip ==
  phase = "python" =>
    LET method == program[1].body[1]
        lines == 1..Len(python)
    IN \E class \in lines, def \in lines, at \in [1..Len(method.body) -> lines] :
          /\ python[class] = "class " \o program[1].name \o ":"
          /\ python[def] = "    def " \o FullName(method.name) \o "(self):"
          /\ class < def
          /\ \A k \in DOMAIN at :
                /\ python[at[k]] = Prefix(2) \o SourceText(method.body[k])
                /\ def < at[k]
                /\ \A l \in DOMAIN at : k < l => at[k] < at[l]

\* ---------------------------------------------------------------- C4
RECURSIVE ClassNames(_)
ClassNames(items) ==
  IF items = <<>> THEN <<>>
  ELSE (IF Head(items).k = "ClassDef" THEN <<Head(items).name>> ELSE <<>>)
         \o ClassNames(Tail(items))

TargetNames == [i \in 1..Len(project) |-> project[i].name]
OneStageFirst == Len(project) >= 1 /\ \A i \in 1..Len(project) : project[i].isStage <=> i = 1

\* C4 as stated: the targets are the Stage, then one sprite per class in
\* declaration order, and nothing else.
C4_StageThenClasses ==
  phase = "project" => OneStageFirst /\ TargetNames = <<"Stage">> \o ClassNames(program)

\* C4: the targets are the Stage, then the default sprite Sprite1 exactly
\* when the module-level code has emitted a block, then one sprite per class
\* in declaration order, each named after its class.
C4_StageDefaultThenClasses ==
  phase = "project" =>
     /\ OneStageFirst
     /\ TargetNames = <<"Stage">>
                        \o (IF DOMAIN t.blocks # {} THEN <<"Sprite1">> ELSE <<>>)
                        \o ClassNames(program)

\* Module-level code and two classes: four targets.
C4_Witness ==
  /\ phase = "project"
  /\ TargetNames = <<"Stage", "Sprite1", "Cat", "Dog">>

\* ---------------------------------------------------------------- C5
\* The condition of the one guarded statement of a script.
GuardOf(stmt) == IF stmt.k = "Expr" THEN stmt.value.args[1] ELSE stmt.test
Guard == GuardOf(program[1].body[1].body[1])
\* The block that the guarded statement has as its CONDITION.
GuardBlock(blocks) ==
  LET flag == CHOOSE id \in DOMAIN blocks : blocks[id].opcode = "event_whenflagclicked"
  IN blocks[blocks[flag].next].inputs[Slot("CONDITION")].block

\* The input in holds the value of the expression e.
RECURSIVE IsValue(_, _, _)
IsValue(blocks, in, e) ==
  CASE e.k = "Constant" ->
         in.block = Null /\ in.lit.s = (IF e.v.ty = "num" THEN ToString(e.v.n) ELSE e.v.s)
    [] e.k = "UnaryOp" -> in.block = Null /\ in.lit.s = ToString(0 - e.operand.v.n)
    [] OTHER ->
         /\ in.block \in DOMAIN blocks
         /\ CASE e.k = "Name" ->
                   /\ blocks[in.block].opcode = "data_variable"
                   /\ blocks[in.block].fields["VARIABLE"].v = StrV(e.id)
              [] e.k = "Call" -> blocks[in.block].opcode = REPORTER_MAP[e.func]
              [] e.k = "BinOp" ->
                   /\ blocks[in.block].opcode = BINOP_MAP[e.op]
                   /\ DOMAIN blocks[in.block].inputs = {Slot("NUM1"), Slot("NUM2")}
                   /\ IsValue(blocks, blocks[in.block].inputs[Slot("NUM1")], e.left)
                   /\ IsValue(blocks, blocks[in.block].inputs[Slot("NUM2")], e.right)
              [] OTHER -> FALSE

\* The block id is opcode(a, b): OPERAND1 holds a and OPERAND2 holds b.
IsBinary(blocks, id, opcode, a, b) ==
  /\ id \in DOMAIN blocks
  /\ blocks[id].opcode = opcode
  /\ DOMAIN blocks[id].inputs = {Slot("OPERAND1"), Slot("OPERAND2")}
  /\ IsValue(blocks, blocks[id].inputs[Slot("OPERAND1")], a)
  /\ IsValue(blocks, blocks[id].inputs[Slot("OPERAND2")], b)

\* The block id is NOT(opcode(a, b)).
IsNegated(blocks, id, opcode, a, b) ==
  /\ id \in DOMAIN blocks
  /\ blocks[id].opcode = "operator_not"
  /\ DOMAIN blocks[id].inputs = {Slot("OPERAND")}
  /\ IsBinary(blocks, blocks[id].inputs[Slot("OPERAND")].block, opcode, a, b)

\* The block id is the compiled form of the comparison c.
IsComparison(blocks, id, c) ==
  CASE c.op = "Gt" -> IsBinary(blocks, id, "operator_gt", c.left, c.right)
    [] c.op = "Lt" -> IsBinary(blocks, id, "operator_lt", c.left, c.right)
    [] c.op = "Eq" -> IsBinary(blocks, id, "operator_equals", c.left, c.right)
    [] c.op = "NotEq" -> IsNegated(blocks, id, "operator_equals", c.left, c.right)
    [] c.op = "GtE" -> IsNegated(blocks, id, "operator_lt", c.left, c.right)
    [] c.op = "LtE" -> IsNegated(blocks, id, "operator_gt", c.left, c.right)

ComparisonOpcodes == {"operator_gt", "operator_lt", "operator_equals", "operator_not",
                      "operator_and", "operator_or"}

\* C5: a comparison a op b used as a condition (a, b of the kinds
\* _extract_value classifies) compiles for !=, >=, <= to NOT over equals,
\* lt, gt of (a, b), for >, <, == to the one gt, lt, equals block of (a, b):
\* OPERAND1 is a, OPERAND2 is b, and no further comparison or boolean block
\* is emitted.
C5_ComparisonAlgebra ==
  (phase = "project" /\ Guard.k = "Compare") =>
     /\ IsComparison(CatBlocks, GuardBlock(CatBlocks), Guard)
     /\ Cardinality(WithOpcode(CatBlocks, ComparisonOpcodes))
          = IF Guard.op \in {"Gt", "Lt", "Eq"} THEN 1 ELSE 2

\* x + 1 <= y has been compiled to NOT(gt(x + 1, y)).
C5_Witness ==
  /\ phase = "project"
  /\ Guard = ECompare("LtE", EBinOp("Add", EName("x"), ENum(1)), EName("y"))
  /\ CatBlocks[GuardBlock(CatBlocks)].opcode = "operator_not"
  /\ WithOpcode(CatBlocks, {"operator_gt"}) # {}

\* ---------------------------------------------------------------- C6
RECURSIVE IsCondition(_, _, _)
RECURSIVE IsChain(_, _, _, _, _)
\* The block id is the right-nested tree of the operands values[i], ...
IsChain(blocks, id, op, values, i) ==
  IF i = Len(values) THEN IsCondition(blocks, id, values[i])
  ELSE /\ id \in DOMAIN blocks
       /\ blocks[id].opcode = (IF op = "And" THEN "operator_and" ELSE "operator_or")
       /\ DOMAIN blocks[id].inputs = {Slot("OPERAND1"), Slot("OPERAND2")}
       /\ IsCondition(blocks, blocks[id].inputs[Slot("OPERAND1")].block, values[i])
       /\ IsChain(blocks, blocks[id].inputs[Slot("OPERAND2")].block, op, values, i + 1)

\* The block id is the compiled form of the condition c.
IsCondition(blocks, id, c) ==
  /\ id \in DOMAIN blocks
  /\ CASE c.k = "Compare" -> IsComparison(blocks, id, c)
       [] c.k = "BoolOp" -> IsChain(blocks, id, c.op, c.values, 1)
       [] c.k = "UnaryOp" ->
            /\ blocks[id].opcode = "operator_not"
            /\ DOMAIN blocks[id].inputs = {Slot("OPERAND")}
            /\ IsCondition(blocks, blocks[id].inputs[Slot("OPERAND")].block, c.operand)
       [] c.k = "Call" -> blocks[id].opcode = BOOLEAN_REPORTER_MAP[c.func]
       [] c.k = "True" -> blocks[id].opcode = "operator_equals"
       [] OTHER -> FALSE

\* The and / or blocks a condition needs: one less than its operands, for
\* every chain in it.
RECURSIVE Joins(_, _)
RECURSIVE JoinsOfAll(_, _)
Joins(c, op) ==
  CASE c.k = "BoolOp" -> (IF c.op = op THEN Len(c.values) - 1 ELSE 0) + JoinsOfAll(c.values, op)
    [] c.k = "UnaryOp" -> Joins(c.operand, op)
    [] OTHER -> 0
JoinsOfAll(values, op) ==
  IF values = <<>> THEN 0 ELSE Joins(Head(values), op) + JoinsOfAll(Tail(values), op)

\* C6: a chain of N >= 2 conditions joined by and (by or) compiles to a
\* right-nested tree of N - 1 and (or) blocks: OPERAND1 of the root is the
\* first operand, OPERAND2 the tree of the remaining ones.
C6_RightNestedChain ==
  (phase = "project" /\ Guard.k = "BoolOp") =>
     /\ IsChain(CatBlocks, GuardBlock(CatBlocks), Guard.op, Guard.values, 1)
     /\ Cardinality(WithOpcode(CatBlocks, {"operator_and"})) = Joins(Guard, "And")
     /\ Cardinality(WithOpcode(CatBlocks, {"operator_or"})) = Joins(Guard, "Or")

\* A chain of three different operands has been compiled with two blocks.
C6_Witness ==
  /\ phase = "project"
  /\ Guard = EBoolOp("And", <<XGt1, MouseDown, EUnary("Not", MouseDown)>>)
  /\ Cardinality(WithOpcode(CatBlocks, {"operator_and"})) = 2

\* ---------------------------------------------------------------- C7
IsForeverStmt(stmt) == stmt.k = "While" /\ stmt.test.k = "True"
\* The opcode of the block a statement of a script emits ("": none).
OpcodeOf(stmt) ==
  CASE stmt.k = "Expr" -> FUNCTION_MAP[stmt.value.func].opcode
    [] stmt.k = "Assign" -> "data_setvariableto"
    [] stmt.k = "While" -> (IF IsForeverStmt(stmt) THEN "control_forever"
                            ELSE "control_repeat_until")
    [] stmt.k = "For" -> "control_repeat"
    [] stmt.k = "If" -> (IF Len(stmt.orelse) > 0 THEN "control_if_else" ELSE "control_if")
    [] OTHER -> ""
RECURSIVE EmittedOpcodes(_)
EmittedOpcodes(body) ==
  IF body = <<>> THEN <<>>
  ELSE (IF OpcodeOf(Head(body)) = "" THEN <<>> ELSE <<OpcodeOf(Head(body))>>)
         \o EmittedOpcodes(Tail(body))

\* The for loops of the script of the class.
ScriptBody == program[1].body[1].body
ForLoops == {ScriptBody[i] : i \in {j \in 1..Len(ScriptBody) : ScriptBody[j].k = "For"}}
Times(loop) ==
  IF loop.iter.k = "Call" /\ loop.iter.func = "range" /\ Len(loop.iter.args) > 0
  THEN loop.iter.args[1].v.n ELSE 10

\* The one control_repeat block of loop: linked after the block before it,
\* TIMES the literal, SUBSTACK the chain of the blocks of the body.
IsRepeat(blocks, loop) ==
  /\ Cardinality(WithOpcode(blocks, {"control_repeat"})) = 1
  /\ \A r \in WithOpcode(blocks, {"control_repeat"}) :
        /\ blocks[r].parent \in DOMAIN blocks
        /\ blocks[blocks[r].parent].next = r
        /\ Has(blocks[r].inputs, Slot("TIMES"))
        /\ blocks[r].inputs[Slot("TIMES")].block = Null
        /\ blocks[r].inputs[Slot("TIMES")].lit.s = ToString(Times(loop))
        /\ IF EmittedOpcodes(loop.body) = <<>> THEN ~Has(blocks[r].inputs, Slot("SUBSTACK"))
           ELSE /\ Has(blocks[r].inputs, Slot("SUBSTACK"))
                /\ ChainOpcodes(blocks, blocks[r].inputs[Slot("SUBSTACK")].block)
                     = EmittedOpcodes(loop.body)

C8_NothingAfterForever ==
  \A i \in 1..Len(t.targets) :
     ScriptReach(t.targets[i].blocks, Hats(t.targets[i].blocks)) \cap t.after_forever = {}

\* ---------------------------------------------------------------- C9
\* The procedures of the class: registered name -> the method.
Procedures == {m \in {program[1].body[i] : i \in 1..Len(program[1].body)} :
                 IsCustomName(m.name)}
ProcedureNames == {ReplaceDefine(m.name) : m \in Procedures}
\* The calls of name in a statement list.
RECURSIVE CallsIn(_, _)
CallsIn(body, name) ==
  IF body = <<>> THEN 0
  ELSE (IF Head(body).k = "Expr" /\ Head(body).value.func = name THEN 1 ELSE 0)
         + CallsIn(Tail(body), name)
RECURSIVE CallsInMethods(_, _)
CallsInMethods(methods, name) ==
  IF methods = <<>> THEN 0
  ELSE CallsIn(Head(methods).body, name) + CallsInMethods(Tail(methods), name)

\* The names visit_Call compiles itself, before it looks for a procedure.
BuiltInCalls ==
  DOMAIN REPORTER_MAP \cup DOMAIN BOOLEAN_REPORTER_MAP \cup DOMAIN FIELD_REPORTER_MAP
    \cup DOMAIN FUNCTION_MAP \cup DOMAIN MULTI_ARG_MAP \cup DOMAIN NO_ARG_MAP
    \cup DOMAIN FIELD_INPUT_MAP \cup DOMAIN MENU_FUNCTION_MAP \cup DOMAIN FIELD_FUNCTION_MAP
    \cup DOMAIN MathopMap
    \cup {"broadcast", "broadcast_and_wait", "key_pressed", "touching", "touching_color",
          "distance_to", "pick_random", "random", "join", "letter_of", "length", "contains",
          "round", "add_to_list", "delete_of_list", "delete_all_of_list", "insert_at_list",
          "replace_item_of_list", "item_of_list", "item_num_of_list", "length_of_list",
          "list_contains", "show_list", "hide_list", "show_variable", "hide_variable",
          "color_touching_color", "property_of", "wait_until"}

\* Every call of the procedure name is a procedures_call block with the
\* proccode and the argumentids of the prototype of name.
CallsMatchPrototype(blocks, name) ==
  LET calls == {id \in WithOpcode(blocks, {"procedures_call"}) :
                  blocks[id].mutation.proccode.name = name}
      prototypes == {id \in WithOpcode(blocks, {"procedures_prototype"}) :
                       blocks[id].mutation.proccode.name = name}
  IN /\ Cardinality(calls) = CallsInMethods(program[1].body, name)
     /\ Cardinality(prototypes) = 1
     /\ \A c \in calls : \A p \in prototypes :
           /\ blocks[c].mutation.proccode = blocks[p].mutation.proccode
           /\ blocks[c].mutation.argumentids = blocks[p].mutation.argumentids

\* C9 as stated: whatever the order of the methods, the class compiles
\* without error and every call of a procedure of the class is a
\* procedures_call block with the proccode and argumentids of its prototype.
C9_CallsMatchPrototype ==
  /\ ~t.raised
  /\ phase = "project" => \A name \in ProcedureNames : CallsMatchPrototype(CatBlocks, name)

\* C9: the same, for the procedures whose registered name is not a name
\* that visit_Call compiles itself.
C9_CallsOfOwnNamesMatchPrototype ==
  /\ ~t.raised
  /\ phase = "project" =>
        \A name \in ProcedureNames \ BuiltInCalls : CallsMatchPrototype(CatBlocks, name)

\* helper is called by a method defined before it, and the call is there.
C9_Witness ==
  /\ phase = "project"
  /\ program[1].body = <<FlagCalls, Helper>>
  /\ \E c \in WithOpcode(CatBlocks, {"procedures_call"}) :
        /\ CatBlocks[c].mutation.proccode = Proccode("helper", <<"steps">>)
        /\ Len(CatBlocks[c].mutation.argumentids) = 1

\* --------------------------------------------------------------- C10
\* The parameter names of the procedure defined by the hat d.
ParametersOf(blocks, d) ==
  LET names == blocks[blocks[d].inputs[Slot("custom_block")].block].mutation.argumentnames
  IN {names[i] : i \in 1..Len(names)}

\* C10: under a procedure definition no data_variable block names a
\* parameter of that procedure, and the class gets no variable of that name
\* unless a method assigns it.
C10_ParametersAreArguments ==
  phase = "project" =>
     /\ \A d \in WithOpcode(CatBlocks, {"procedures_definition"}) :
           \A id \in AnyReach(CatBlocks, {d}) :
              CatBlocks[id].opcode = "data_variable"
                 => CatBlocks[id].fields["VARIABLE"].v.s \notin ParametersOf(CatBlocks, d)
     /\ FlagCalls \notin {program[1].body[i] : i \in 1..Len(program[1].body)}
           => \A v \in DOMAIN project[2].variables : project[2].variables[v].name # "steps"

\* --------------------------------------------------------------- C11
\* The reads of the procedure table that the graph keeps: the mutation of a
\* procedures_prototype (the read of a definition in pass 2) and of a
\* procedures_call (the read of a call).
TableReads(blocks, name) ==
  {id \in WithOpcode(blocks, {"procedures_prototype", "procedures_call"}) :
     blocks[id].mutation.proccode.name = name}

\* C11: within one class, every read of the procedure table for one name,
\* by a definition in pass 2 or by a call, sees the same proc-code and the
\* same argument ids, also when two methods register the same name.
C11_RegistrationImmutable ==
  phase = "project" =>
    \A name \in ProcedureNames :
       \A r1, r2 \in TableReads(CatBlocks, name) :
          /\ CatBlocks[r1].mutation.proccode = CatBlocks[r2].mutation.proccode
          /\ CatBlocks[r1].mutation.argumentids = CatBlocks[r2].mutation.argumentids

\* --------------------------------------------------------------- C12
\* C12: a step that visits a class leaves the block graph, the variable
\* tables, the list tables, the procedure table, the set of referenced
\* sounds, the chain cursor and the hat cursor as they were before it.
C12_ClassRestoresState ==
  [][ClassDefStep =>
       /\ t'.blocks = t.blocks
       /\ t'.variable_ids = t.variable_ids
       /\ t'.variable_definitions = t.variable_definitions
       /\ t'.list_ids = t.list_ids
       /\ t'.list_definitions = t.list_definitions
       /\ t'.custom_blocks = t.custom_blocks
       /\ t'.sounds_used = t.sounds_used
       /\ t'.prev = t.prev
       /\ t'.hat = t.hat]_vars

\* --------------------------------------------------------------- C13
\* C13: every target of the target list is, after any further step of the
\* run, still in the list with the same blocks, variables, lists,
\* broadcasts and referenced sounds.
C13_TargetsImmutable ==
  [][\A i \in 1..Len(t.targets) : \E j \in 1..Len(t'.targets) : t'.targets[j] = t.targets[i]]_vars

\* --------------------------------------------------------------- C14
\* C14: the forward compiler never raises, whatever operators and call
\* names the tree holds.
C14_NeverRaises == ~t.raised

\* --------------------------------------------------------------- C15
\* A next or an input of a block refers to an id that is not in the target,
\* or a block has no opcode.
Invalid(blocks) ==
  \E b \in DOMAIN blocks :
     \/ blocks[b].opcode = ""
     \/ blocks[b].next \notin DOMAIN blocks \cup {Null}
     \/ \E key \in DOMAIN blocks[b].inputs :
           blocks[b].inputs[key].block \notin DOMAIN blocks \cup {Null}

\* C15: converting a project with an invalid block graph ends in an error
\* and yields no source text (the converter has returned no line).
C15_InvalidProjectRejected ==
  phase = "python" /\ (\E i \in Sprites : Invalid(project[i].blocks)) => python = <<>>

\* --------------------------------------------------------------- C16
\* The targets with every id renamed by the bijection id -> id + d: the
\* keys of blocks, variables and lists, next, parent, the block and the
\* broadcast id of an input, the argument ids that key an input, the id of a
\* field, a block reference kept as a field value, the argument ids of a
\* mutation, and the broadcast ids.  Opcodes, field texts, literals, shadow
\* and topLevel are left as they are.
Renamed(targets, d) ==
  LET R(id) == IF id = Null THEN Null ELSE id + d
      RenamedKeys(f) == {R(k) : k \in DOMAIN f}
      RenamedValue(v) == IF v.ty = "block" THEN [v EXCEPT !.n = R(@)] ELSE v
      RenamedInput(in) == [in EXCEPT !.block = R(@), !.lit.id = R(@)]
      RenamedField(f) == [v |-> RenamedValue(f.v), id |-> R(f.id)]
      RenamedKey(key) == [key EXCEPT !.arg = R(@)]
      RenamedInputs(ins) == [key \in {RenamedKey(k) : k \in DOMAIN ins} |->
                        RenamedInput(ins[[key EXCEPT !.arg = IF @ = Null THEN Null ELSE @ - d]])]
      RenamedBlock(b) ==
        [b EXCEPT !.next = R(@), !.parent = R(@), !.inputs = RenamedInputs(@),
                  !.fields = [name \in DOMAIN b.fields |-> RenamedField(b.fields[name])],
                  !.mutation.argumentids = [i \in DOMAIN @ |-> R(@[i])]]
      RenamedTarget(g) ==
        [g EXCEPT !.blocks = [id \in RenamedKeys(g.blocks) |-> RenamedBlock(g.blocks[id - d])],
                  !.variables = [id \in RenamedKeys(g.variables) |->
                                   [g.variables[id - d] EXCEPT !.value = RenamedValue(@)]],
                  !.lists = [id \in RenamedKeys(g.lists) |-> g.lists[id - d]],
                  !.broadcasts = [name \in DOMAIN g.broadcasts |-> R(g.broadcasts[name])]]
  IN [i \in DOMAIN targets |-> RenamedTarget(targets[i])]

\* C16: a second run of the same source, with other tokens, returns the
\* targets of the first run up to a bijection on the ids that keeps
\* opcodes, fields, literal inputs, next, parent, input references and
\* topLevel.
C16_SameUpToIds ==
  phase = "targets" =>
    \A start \in 2..MaxStart :
       Renamed(t.targets, start - 1) = TranspiledFrom(program, start).targets

\* --------------------------------------------------------------- C17
\* The opcode of the script entry block that a method name stands for.
EntryOpcode(name) ==
  CASE name = WhenFlagClicked -> "event_whenflagclicked"
    [] name.prefix = "when_key_" -> "event_whenkeypressed"
    [] name = FName("when_", "clicked") -> "event_whenthisspriteclicked"
    [] name.prefix = "when_backdrop_" -> "event_whenbackdropswitchesto"
    [] name.prefix = "when_broadcast_" -> "event_whenbroadcastreceived"
    [] name = FName("when_", "i_start_as_clone") -> "control_start_as_clone"
    [] name.prefix \in {"when_loudness_gt_", "when_timer_gt_"} -> "event_whengreaterthan"
    [] OTHER -> "procedures_definition"

TopLevel(blocks) == {id \in DOMAIN blocks : blocks[id].topLevel}

\* C17: the top-level blocks of the class's target are one script entry
\* block per non-dunder method: for every entry opcode, as many top-level
\* blocks as methods whose name stands for it, a name that starts with when_
\* and is no hat name standing for procedures_definition.
C17_OneEntryPerMethod ==
  phase = "project" =>
    LET methods == program[1].body
        named(opcode) == {i \in 1..Len(methods) :
                            /\ methods[i].name.prefix # "__"
                            /\ EntryOpcode(methods[i].name) = opcode}
    IN /\ \A id \in TopLevel(CatBlocks) : CatBlocks[id].opcode \in HatOpcodes
       /\ \A opcode \in HatOpcodes :
             Cardinality(TopLevel(CatBlocks) \cap WithOpcode(CatBlocks, {opcode}))
               = Cardinality(named(opcode))

\* ---------------------------------------------------------------- C18
\* The if statements of the script of the class.
IfStmts == {ScriptBody[i] : i \in {j \in 1..Len(ScriptBody) : ScriptBody[j].k = "If"}}
IfOpcodes == {"control_if", "control_if_else"}
IsPrefixOf(a, b) == Len(a) <= Len(b) /\ SubSeq(b, 1, Len(a)) = a

\* Input slot of the if block r is the compiled branch: absent when the
\* branch emits no block, else it references the block of the first emitting
\* statement, whose parent is r, and the chain from it stays in the branch.
IsBranch(blocks, r, slot, branch) ==
  IF EmittedOpcodes(branch) = <<>> THEN ~Has(blocks[r].inputs, Slot(slot))
  ELSE /\ Has(blocks[r].inputs, Slot(slot))
       /\ LET first == blocks[r].inputs[Slot(slot)].block
          IN /\ first \in DOMAIN blocks
             /\ blocks[first].opcode = Head(EmittedOpcodes(branch))
             /\ blocks[first].parent = r
             /\ IsPrefixOf(ChainOpcodes(blocks, first), EmittedOpcodes(branch))

\* The one block of the if statement stmt.
IsIf(blocks, stmt) ==
  /\ Cardinality(WithOpcode(blocks, IfOpcodes)) = 1
  /\ \A r \in WithOpcode(blocks, IfOpcodes) :
        /\ blocks[r].opcode = "control_if_else" <=> Len(stmt.orelse) > 0
        /\ IsBranch(blocks, r, "SUBSTACK", stmt.body)
        /\ IF Len(stmt.orelse) > 0 THEN IsBranch(blocks, r, "SUBSTACK2", stmt.orelse)
           ELSE ~Has(blocks[r].inputs, Slot("SUBSTACK2"))

\* C18: an if statement compiles to one block, control_if_else exactly when
\* it has an else-branch and control_if otherwise; SUBSTACK references the
\* first block of the compiled body and SUBSTACK2 that of the else-body, both
\* with the if block as parent, and the next chain of a branch ends inside
\* the branch.
C18_IfStructure ==
  phase = "project" => \A stmt \in IfStmts : IsIf(CatBlocks, stmt)

\* The same, for the if statements none of whose branches holds a
\* `while True:` statement in its own statement list.
C18_IfWithoutForever ==
  phase = "project" =>
     \A stmt \in IfStmts :
        (\A i \in 1..Len(stmt.body) : ~IsForeverStmt(stmt.body[i]))
          /\ (\A i \in 1..Len(stmt.orelse) : ~IsForeverStmt(stmt.orelse[i]))
        => IsIf(CatBlocks, stmt)

\* ---------------------------------------------------------------- C19
\* The statement the next step of the module visits is `x op= e` with op in ops.
VisitsAug(ops) ==
  /\ StatementStep
  /\ program[pc].k = "AugAssign"
  /\ program[pc].op \in ops
\* The blocks the step creates.
Created == DOMAIN t'.blocks \ DOMAIN t.blocks
IsNumericLiteral(e) == e.k = "Constant" /\ e.v.ty = "num"
\* The right-hand sides the property is about.
IsOperand(e) == IsNumericLiteral(e) \/ e.k \in {"Name", "BinOp", "Call"}

\* Block c of blocks changes x by the negation of the right-hand side e: by
\* the literal -e when e is a numeric literal, else by an operator_subtract
\* block with NUM1 the literal 0 and NUM2 a block.
ChangesByNegated(blocks, c, e) ==
  /\ blocks[c].opcode = "data_changevariableby"
  /\ blocks[c].fields["VARIABLE"].v = StrV("x")
  /\ Has(blocks[c].inputs, Slot("VALUE"))
  /\ LET value == blocks[c].inputs[Slot("VALUE")]
     IN IF IsNumericLiteral(e)
        THEN value.block = Null /\ value.lit.s = ToString(0 - e.v.n)
        ELSE /\ value.block \in DOMAIN blocks
             /\ blocks[value.block].opcode = "operator_subtract"
             /\ Has(blocks[value.block].inputs, Slot("NUM1"))
             /\ blocks[value.block].inputs[Slot("NUM1")].block = Null
             /\ blocks[value.block].inputs[Slot("NUM1")].lit.s = "0"
             /\ Has(blocks[value.block].inputs, Slot("NUM2"))
             /\ blocks[value.block].inputs[Slot("NUM2")].block \in DOMAIN blocks

\* C19: `x -= v` compiles to one data_changevariableby block on x whose VALUE
\* is the literal -v for a numeric literal v, and otherwise a reference to an
\* operator_subtract block with NUM1 = 0 and NUM2 the compiled v; the
\* un-negated operand is never fed to the change-by block.
C19_SubtractNegates ==
  [][VisitsAug({"Sub"}) /\ IsOperand(program[pc].value) =>
       /\ Cardinality({c \in Created : t'.blocks[c].opcode = "data_changevariableby"}) = 1
       /\ \A c \in Created :
             t'.blocks[c].opcode = "data_changevariableby"
               => ChangesByNegated(t'.blocks, c, program[pc].value)]_vars

\* ---------------------------------------------------------------- C20
\* C20: an augmented assignment with an operator other than += and -= emits
\* nothing: the step that visits it leaves the block graph, the variable and
\* list tables and the chain cursor unchanged, whatever the right-hand side.
C20_OtherOperatorsEmitNothing ==
  [][VisitsAug(AugOps \ {"Add", "Sub"}) =>
       /\ t'.blocks = t.blocks
       /\ t'.variable_ids = t.variable_ids
       /\ t'.variable_definitions = t.variable_definitions
       /\ t'.list_ids = t.list_ids
       /\ t'.list_definitions = t.list_definitions
       /\ t'.prev = t.prev]_vars

\* The same for the chain cursor and the list tables alone.
C20_CursorAndListsUnchanged ==
  [][VisitsAug(AugOps \ {"Add", "Sub"}) =>
       /\ t'.list_ids = t.list_ids
       /\ t'.list_definitions = t.list_definitions
       /\ t'.prev = t.prev]_vars

\* ---------------------------------------------------------------- C21
\* The `while cond:` statements of the script of the class, cond not True,
\* each with the statements that follow it in the script.
WhileAt == {i \in 1..Len(ScriptBody) : ScriptBody[i].k = "While" /\ ~IsForeverStmt(ScriptBody[i])}
Following(i) == SubSeq(ScriptBody, i + 1, Len(ScriptBody))

\* The one control_repeat_until block of the loop at i: CONDITION is the
\* compiled test itself, SUBSTACK the chain of the blocks of the body, and
\* the block of the statement after the loop is its next.
IsRepeatUntil(blocks, i) ==
  /\ Cardinality(WithOpcode(blocks, {"control_repeat_until"})) = 1
  /\ \A r \in WithOpcode(blocks, {"control_repeat_until"}) :
        /\ Has(blocks[r].inputs, Slot("CONDITION"))
        /\ IsComparison(blocks, blocks[r].inputs[Slot("CONDITION")].block, ScriptBody[i].test)
        /\ blocks[blocks[r].inputs[Slot("CONDITION")].block].parent = r
        /\ IF EmittedOpcodes(ScriptBody[i].body) = <<>>
           THEN ~Has(blocks[r].inputs, Slot("SUBSTACK"))
           ELSE /\ Has(blocks[r].inputs, Slot("SUBSTACK"))
                /\ ChainOpcodes(blocks, blocks[r].inputs[Slot("SUBSTACK")].block)
                     = EmittedOpcodes(ScriptBody[i].body)
        /\ ChainOpcodes(blocks, blocks[r].next) = EmittedOpcodes(Following(i))
        /\ blocks[r].next # Null => blocks[blocks[r].next].parent = r

\* C21: `while cond: body`, cond not the literal True, compiles to one
\* control_repeat_until block whose CONDITION is the block compiled for cond
\* with no NOT added or removed, whose SUBSTACK is the compiled body, and
\* which the following statement is linked to as its next.
C21_RepeatUntil ==
  phase = "project" => \A i \in WhileAt : IsRepeatUntil(CatBlocks, i)

\* The same, for the loops whose body holds no `while True:` statement.
C21_RepeatUntilWithoutForever ==
  phase = "project" =>
     \A i \in WhileAt :
        (\A j \in 1..Len(ScriptBody[i].body) : ~IsForeverStmt(ScriptBody[i].body[j]))
          => IsRepeatUntil(CatBlocks, i)

\* ---------------------------------------------------------------- C22
\* The ids of the chain that starts at id and follows next.
RECURSIVE ChainIds(_, _)
ChainIds(blocks, id) ==
  IF id \notin DOMAIN blocks THEN <<>>
  ELSE <<id>> \o ChainIds(blocks, blocks[id].next)

\* The chain of the script: the hat and the blocks of the statements of the
\* method, each the next of the one before it and with it as parent.
FlagHat(blocks) == CHOOSE id \in DOMAIN blocks : blocks[id].opcode = "event_whenflagclicked"
OuterChain(blocks) == ChainIds(blocks, FlagHat(blocks))
ContainerAt == CHOOSE i \in 1..Len(ScriptBody) : ScriptBody[i].k \in {"For", "If", "While"}
OuterResumes(blocks) ==
  LET chain == OuterChain(blocks)
  IN /\ [i \in 1..Len(chain) |-> blocks[chain[i]].opcode]
          = <<"event_whenflagclicked">> \o EmittedOpcodes(ScriptBody)
     /\ \A i \in 2..Len(chain) : blocks[chain[i]].parent = chain[i - 1]

\* No block off the chain of the script has a next on it, or a parent on it
\* other than the container.
BodyIsolated(blocks) ==
  LET chain == OuterChain(blocks)
      outer == {chain[i] : i \in 1..Len(chain)}
  IN \A b \in DOMAIN blocks \ outer :
        /\ blocks[b].next \notin outer
        /\ blocks[b].parent \in outer => blocks[b].parent = chain[ContainerAt + 1]

\* C22: compiling the body of a for / if / else / while-cond container does
\* not change the outer chain, whatever the body holds: the container is the
\* next of the block before it, the statement after it is the container's
\* next with the container as parent, and no block of the body has a next or
\* a parent on the outer chain other than the container.
C22_OuterChainResumes ==
  phase = "project" => OuterResumes(CatBlocks) /\ BodyIsolated(CatBlocks)

\* A for loop between two calls whose body is a `while True:` loop and then a
\* nested if-else with a `while True:` loop in its else-branch.
C22_Witness ==
  /\ phase = "project"
  /\ ScriptBody = <<Move10,
                    SFor(ECall("range", <<ENum(3)>>),
                         <<TurnForever, SIf(XGt1, <<Move10>>, <<Move10, TurnForever>>)>>),
                    SayHi>>
  /\ Len(OuterChain(CatBlocks)) = 4
  /\ Cardinality(WithOpcode(CatBlocks, {"control_forever"})) = 2

\* ---------------------------------------------------------------- C23
\* Every block that an input of a block refers to has that block as parent.
InputsAreChildren(blocks) ==
  \A p \in DOMAIN blocks :
     \A key \in DOMAIN blocks[p].inputs :
        blocks[p].inputs[key].block \in DOMAIN blocks
          => blocks[blocks[p].inputs[key].block].parent = p

\* C23: in every compiled graph, a block referenced by an input slot of
\* block P (a variable reporter, a compiled expression, a condition, a menu
\* shadow or a substack head) has parent P, the TIMES input of a for loop and
\* the VALUE input of `x -= <expression>` included.
C23_InputsAreChildren ==
  \A i \in 1..Len(t.targets) : InputsAreChildren(t.targets[i].blocks)

\* ---------------------------------------------------------------- C24
\* The (message name, broadcast id) pairs the blocks refer to: the
\* BROADCAST_INPUT of a broadcast block, the BROADCAST_OPTION of a hat.
BroadcastRefs(blocks) ==
  {[name |-> blocks[b].inputs[Slot("BROADCAST_INPUT")].lit.s,
    id |-> blocks[b].inputs[Slot("BROADCAST_INPUT")].lit.id] :
      b \in {c \in DOMAIN blocks : Has(blocks[c].inputs, Slot("BROADCAST_INPUT"))}}
    \cup {[name |-> blocks[b].fields["BROADCAST_OPTION"].v.s,
           id |-> blocks[b].fields["BROADCAST_OPTION"].id] :
            b \in {c \in DOMAIN blocks : Has(blocks[c].fields, "BROADCAST_OPTION")}}
AllBroadcastRefs == UNION {BroadcastRefs(t.targets[i].blocks) : i \in 1..Len(t.targets)}

\* C24: within one run broadcast ids are shared across all sprites: two
\* references to the same message name (broadcast, broadcast_and_wait or a
\* when_broadcast_ hat, in one class or in two) carry the same id, and
\* references to different names carry different ids.
C24_BroadcastIdsShared ==
  \A r1 \in AllBroadcastRefs : \A r2 \in AllBroadcastRefs :
     (r1.name = r2.name) <=> (r1.id = r2.id)

\* Cat sends go and stop, Dog receives go and sends it on receiving stop.
C24_Witness ==
  /\ phase = "targets"
  /\ Len(t.targets) = 2
  /\ Cardinality(AllBroadcastRefs) = 2
  /\ Cardinality(BroadcastRefs(t.targets[1].blocks)) = 2
  /\ Cardinality(BroadcastRefs(t.targets[2].blocks)) = 2
  /\ Cardinality(WithOpcode(t.targets[2].blocks, {"event_whenbroadcastreceived"})) = 2

\* ---------------------------------------------------------------- C25
\* An id as a value, to tell a key that is an id from one that is a name.
IdV(id) == [ty |-> "id", n |-> id, s |-> ""]
\* The (key, value) pairs of the broadcasts table of a target as emitted:
\* the table is the dict of _get_or_create_broadcast, message name -> id.
BroadcastEntries(tg) ==
  {<<StrV(name), IdV(tg.broadcasts[name])>> : name \in DOMAIN tg.broadcasts}

\* C25: in every target of the emitted project the broadcasts table is keyed
\* by broadcast id with the message name as value, and every broadcast id a
\* block of the target refers to is a key of the table.
C25_BroadcastsKeyedById ==
  phase = "project" =>
     \A i \in 1..Len(project) :
        /\ \A e \in BroadcastEntries(project[i]) : e[1].ty = "id" /\ e[2].ty = "str"
        /\ \A r \in BroadcastRefs(project[i].blocks) :
              <<IdV(r.id), StrV(r.name)>> \in BroadcastEntries(project[i])

\* The same with the table read the other way round: every reference of a
\* target is an entry name -> id of its table.
C25_BroadcastsKeyedByName ==
  phase = "project" =>
     \A i \in 1..Len(project) :
        \A r \in BroadcastRefs(project[i].blocks) :
           <<StrV(r.name), IdV(r.id)>> \in BroadcastEntries(project[i])

\* ---------------------------------------------------------------- C26
\* The variable names an expression reads.
RECURSIVE NamesIn(_)
NamesIn(e) ==
  CASE e.k = "Name" -> {e.id}
    [] e.k = "BinOp" -> NamesIn(e.left) \cup NamesIn(e.right)
    [] e.k = "Call" -> UNION {NamesIn(e.args[i]) : i \in 1..Len(e.args)}
    [] OTHER -> {}
\* The position of the list name among the arguments of a list call.
ListNameAt == [add_to_list |-> 2, show_list |-> 1]
IsVisibility(stmt) ==
  stmt.k = "Expr" /\ stmt.value.func \in {"show_variable", "hide_variable"}
IsListCall(stmt) == stmt.k = "Expr" /\ stmt.value.func \in DOMAIN ListNameAt
\* The variables and the lists a statement of the script refers to.
VariablesOf(stmt) ==
  CASE stmt.k \in {"Assign", "AugAssign"} -> {stmt.target} \cup NamesIn(stmt.value)
    [] stmt.k = "If" -> NamesIn(stmt.test)
    [] IsVisibility(stmt) -> {stmt.value.args[1].v.s}
    [] stmt.k = "Expr" -> NamesIn(stmt.value)
    [] OTHER -> {}
ListsOf(stmt) ==
  IF IsListCall(stmt) THEN {stmt.value.args[ListNameAt[stmt.value.func]].v.s} ELSE {}
\* The value fixed at the first reference of name: the literal of the first
\* assignment when that is the first reference, else 0.
FirstValue(body, name) ==
  LET first == CHOOSE i \in 1..Len(body) :
                  /\ name \in VariablesOf(body[i])
                  /\ \A j \in 1..(i - 1) : name \notin VariablesOf(body[j])
  IN IF body[first].k = "Assign" /\ body[first].target = name
          /\ body[first].value.k = "Constant"
     THEN body[first].value.v ELSE NumV(0)

\* The tables of target tg after the statements of body: one entry per
\* name, each with the value of its first reference, and every VARIABLE and
\* LIST field carries the id of the entry of its name.
TablesMatch(tg, body) ==
  LET variables == UNION {VariablesOf(body[i]) : i \in 1..Len(body)}
      lists == UNION {ListsOf(body[i]) : i \in 1..Len(body)}
  IN /\ {tg.variables[id].name : id \in DOMAIN tg.variables} = variables
     /\ Cardinality(DOMAIN tg.variables) = Cardinality(variables)
     /\ \A id \in DOMAIN tg.variables :
           tg.variables[id].value = FirstValue(body, tg.variables[id].name)
     /\ \A b \in DOMAIN tg.blocks :
           Has(tg.blocks[b].fields, "VARIABLE")
             => /\ Has(tg.variables, tg.blocks[b].fields["VARIABLE"].id)
                /\ tg.variables[tg.blocks[b].fields["VARIABLE"].id].name
                     = tg.blocks[b].fields["VARIABLE"].v.s
     /\ {tg.lists[id].name : id \in DOMAIN tg.lists} = lists
     /\ Cardinality(DOMAIN tg.lists) = Cardinality(lists)
     /\ \A id \in DOMAIN tg.lists : tg.lists[id].items = <<>>
     /\ \A b \in DOMAIN tg.blocks :
           Has(tg.blocks[b].fields, "LIST")
             => /\ Has(tg.lists, tg.blocks[b].fields["LIST"].id)
                /\ tg.lists[tg.blocks[b].fields["LIST"].id].name
                     = tg.blocks[b].fields["LIST"].v.s

\* C26: after any sequence of statements compiled in one class the variable
\* table has exactly one entry per variable name referenced (assigned,
\* augmented, read, shown or hidden), every VARIABLE field carries that
\* entry's id, and the entry's value is the one fixed at the first reference
\* (the literal of a first assignment, else 0); the same for lists, with the
\* empty list as value.
C26_OneEntryPerName ==
  phase = "project" => TablesMatch(project[2], ScriptBody)

\* The statements whose reference to a variable emits no block for it: a
\* bare name as a condition, and `x *= e`.
ReadsWithoutBlock(stmt) ==
  \/ stmt.k = "If" /\ stmt.test.k = "Name"
  \/ stmt.k = "AugAssign" /\ stmt.op \notin {"Add", "Sub"}
\* The same for the scripts that hold no such statement.
C26_OneEntryPerEmittedName ==
  (phase = "project" /\ \A i \in 1..Len(ScriptBody) : ~ReadsWithoutBlock(ScriptBody[i]))
     => TablesMatch(project[2], ScriptBody)

\* ---------------------------------------------------------------- C27
\* The symbolic targets the menu of a function accepts.
Accepts ==
  [go_to |-> {"mouse", "random"}, glide_to |-> {"mouse", "random"},
   point_towards |-> {"mouse", "random"}, touching |-> {"mouse", "edge"},
   distance_to |-> {"mouse"}, create_clone |-> {"myself"}]
Sentinel(s) == "_" \o s \o "_"
\* The menu call of the script and its target.
MenuCall ==
  LET call == ScriptBody[Len(ScriptBody)].value
  IN IF call.func \in {"wait_until", "move"} /\ call.args[1].k = "Call"
     THEN call.args[1] ELSE call
MenuTarget == MenuCall.args[Len(MenuCall.args)].v.s
\* The statement of the script written with target s.
MenuText(s) ==
  CASE MenuCall.func = "glide_to" -> "glide_to(1, " \o Quoted(s) \o ")"
    [] MenuCall.func = "touching" -> "wait_until(touching(" \o Quoted(s) \o "))"
    [] MenuCall.func = "distance_to" -> "move(distance_to(" \o Quoted(s) \o "))"
    [] OTHER -> MenuCall.func \o "(" \o Quoted(s) \o ")"
\* The values the menu blocks of the sprite hold in their field.
MenuValues ==
  {CatBlocks[b].fields[MenuReporters[CatBlocks[b].opcode].field].v :
     b \in {c \in DOMAIN CatBlocks : CatBlocks[c].opcode \in DOMAIN MenuReporters}}
Stored(s) == MenuValues = {StrV(s)}
Rendered(s) == \E i \in 1..Len(python) : python[i] = Prefix(2) \o MenuText(s)

\* C27: a symbolic target the menu of the function accepts is stored as its
\* sentinel and decompiled as the original text; any other string (one that
\* is not an accepted target in another case) is stored and decompiled
\* unchanged.
C27_SentinelsRoundTrip ==
  phase = "python" /\ (MenuTarget \in Accepts[MenuCall.func]
                         \/ Lower(MenuTarget) \notin Accepts[MenuCall.func]) =>
    /\ Stored(IF MenuTarget \in Accepts[MenuCall.func]
              THEN Sentinel(MenuTarget) ELSE MenuTarget)
    /\ Rendered(MenuTarget)

\* What holds: the motion and sensing menus store the sentinel of an accepted
\* target whatever its case and decompile it in lower case; create_clone
\* stores every string as written; every other string round-trips unchanged.
C27_SentinelsOfMotionAndSensing ==
  phase = "python" =>
    LET name == IF MenuCall.func = "create_clone" THEN MenuTarget
                ELSE Lower(MenuTarget)
        symbolic == MenuCall.func # "create_clone" /\ name \in Accepts[MenuCall.func]
    IN /\ Stored(IF symbolic THEN Sentinel(name) ELSE MenuTarget)
       /\ Rendered(IF symbolic THEN name ELSE MenuTarget)

\* ---------------------------------------------------------------- C28
\* The lines of the converted text that open a method.
MethodLines ==
  {i \in 1..Len(python) :
     \E m \in NamedMethods :
        python[i] \in {"    def " \o FullName(m.name) \o "(self):",
                       "    def define_" \o FullName(m.name) \o "(self):",
                       "    def define_" \o m.name.rest \o "(self):"}}
Unnamed == {"event_whenbackdropswitchesto", "event_whengreaterthan"}
HatsOf(blocks) == {id \in DOMAIN blocks : \E k \in DOMAIN FindHatBlocks(blocks) : FindHatBlocks(blocks)[k] = id}

\* C28: every hat _find_hat_blocks returns has a non-empty method name and
\* the converted class holds one method per hat, the hats of when_backdrop_,
\* when_loudness_gt_ and when_timer_gt_ methods included.
C28_EveryHatIsAMethod ==
  phase = "python" =>
    /\ \A id \in HatsOf(CatBlocks) : GetMethodName(CatBlocks, CatBlocks[id]) # ""
    /\ Cardinality(MethodLines) = Cardinality(HatsOf(CatBlocks))

\* What holds: the hats of every other opcode have a name and one method each.
C28_NamedHatsAreMethods ==
  phase = "python" =>
    LET named == {id \in HatsOf(CatBlocks) : CatBlocks[id].opcode \notin Unnamed}
    IN /\ \A id \in named : GetMethodName(CatBlocks, CatBlocks[id]) # ""
       /\ \A id \in HatsOf(CatBlocks) \ named : GetMethodName(CatBlocks, CatBlocks[id]) = ""
       /\ Cardinality(MethodLines) = Cardinality(named)

\* ---------------------------------------------------------------- C29
\* A block graph read from its roots, without the ids: a block is its
\* opcode, fields, mutation, shadow and topLevel, the shapes of the blocks
\* its inputs and its next refer to, and whether its parent is the block
\* that refers to it.  Two graphs in which every block but the roots is
\* referred to once have the same shape exactly when a renaming of the ids
\* maps one onto the other.
RECURSIVE Shape(_, _, _)
Shape(blocks, id, from) ==
  LET b == blocks[id]
      Under(ref) == IF ref = Null THEN <<>> ELSE <<Shape(blocks, ref, id)>>
      Position(arg) ==
        IF arg = Null THEN 0
        ELSE CHOOSE i \in 0..Len(b.mutation.argumentids) :
               i = 0 \/ b.mutation.argumentids[i] = arg
  IN [opcode |-> b.opcode, shadow |-> b.shadow, topLevel |-> b.topLevel,
      parent |-> IF b.parent = Null THEN "none"
                 ELSE IF b.parent = from THEN "referrer" ELSE "other",
      fields |-> [name \in DOMAIN b.fields |->
                    IF b.fields[name].v.ty = "block" THEN StrV("block") ELSE b.fields[name].v],
      inputs |-> {[slot |-> key.slot, arg |-> Position(key.arg),
                   shadow |-> b.inputs[key].shadow, code |-> b.inputs[key].lit.code,
                   s |-> b.inputs[key].lit.s, block |-> Under(b.inputs[key].block)] :
                    key \in DOMAIN b.inputs},
      mutation |-> [b.mutation EXCEPT !.argumentids = Len(@)],
      next |-> Under(b.next)]
\* The blocks no next and no input refers to.
Roots(blocks) ==
  {id \in DOMAIN blocks :
     \A other \in DOMAIN blocks :
        /\ blocks[other].next # id
        /\ \A key \in DOMAIN blocks[other].inputs : blocks[other].inputs[key].block # id}
GraphShape(target) ==
  [name |-> target.name,
   roots |-> {Shape(target.blocks, id, Null) : id \in Roots(target.blocks)},
   blocks |-> Cardinality(DOMAIN target.blocks),
   variables |-> {target.variables[id] : id \in DOMAIN target.variables},
   lists |-> {target.lists[id] : id \in DOMAIN target.lists},
   broadcasts |-> DOMAIN target.broadcasts]
SameUpToRenaming(p, q) ==
  /\ Len(p) = Len(q)
  /\ \A i \in 1..Len(p) : GraphShape(p[i]) = GraphShape(q[i])

\* C29: compiling the text converted from a compiled project gives the
\* block graphs of that project up to a renaming of the ids.
C29_RoundTripLossless ==
  phase = "roundtrip" => SameUpToRenaming(project, roundtrip)

\* What holds: the round trip is lossless for a script with no `while
\* <condition>:` loop and no statement after a `while True:` loop.
LosslessBody ==
  /\ \A i \in 1..Len(program[1].body[2].body) :
        program[1].body[2].body[i].k = "While" => program[1].body[2].body[i].test = ETrue
  /\ \A i \in 1..(Len(program[1].body[2].body) - 1) :
        program[1].body[2].body[i].k # "While"
C29_LosslessWithoutRepeatUntil ==
  phase = "roundtrip" /\ LosslessBody => SameUpToRenaming(project, roundtrip)
C29_LossyOtherwise ==
  phase = "roundtrip" /\ ~LosslessBody => ~SameUpToRenaming(project, roundtrip)

\* ---------------------------------------------------------------- C30
\* The statement lists a statement holds.
Bodies(s) ==
  CASE s.k \in {"For", "While"} -> <<s.body>>
    [] s.k = "If" -> <<s.body, s.orelse>>
    [] OTHER -> <<>>
RECURSIVE ForeverLoops(_)
\* The number of `while True:` loops in a statement list, nested ones included.
ForeverLoops(stmts) ==
  LET Inside(s) == IF Bodies(s) = <<>> THEN 0
                   ELSE IF Len(Bodies(s)) = 1 THEN ForeverLoops(Bodies(s)[1])
                   ELSE ForeverLoops(Bodies(s)[1]) + ForeverLoops(Bodies(s)[2])
  IN IF stmts = <<>> THEN 0
     ELSE (IF IsForever(Head(stmts)) THEN 1 ELSE 0) + Inside(Head(stmts))
            + ForeverLoops(Tail(stmts))
RECURSIVE NoneAfterForever(_)
\* No `while True:` loop of the list, at any depth, comes after a `while
\* True:` loop of its own list or of a list around it.
NoneAfterForever(stmts) ==
  /\ \A i \in 1..Len(stmts) : \A j \in (i + 1)..Len(stmts) :
        IsForever(stmts[i]) => ForeverLoops(<<stmts[j]>>) = 0
  /\ \A i \in 1..Len(stmts) : \A k \in 1..Len(Bodies(stmts[i])) :
        NoneAfterForever(Bodies(stmts[i])[k])
RECURSIVE ForeverLeads(_)
\* Some for / if / else / while-condition body of the list, at any depth,
\* has a `while True:` loop as its first statement other than pass.
ForeverLeads(stmts) ==
  \E i \in 1..Len(stmts) :
     /\ ~IsForever(stmts[i])
     /\ \E k \in 1..Len(Bodies(stmts[i])) :
           LET body == Bodies(stmts[i])[k]
           IN \/ \E j \in 1..Len(body) :
                    /\ IsForever(body[j])
                    /\ \A l \in 1..(j - 1) : body[l].k = "Pass"
              \/ ForeverLeads(body)
\* The control_forever block id is the next of its parent, or the substack
\* of its parent.
Attached(blocks, id) ==
  /\ blocks[id].parent \in DOMAIN blocks
  /\ \/ blocks[blocks[id].parent].next = id
     \/ \E name \in {"SUBSTACK", "SUBSTACK2"} :
           /\ blocks[blocks[id].parent].opcode \in
                {"control_repeat", "control_if", "control_if_else", "control_repeat_until"}
           /\ GetSubstack(blocks[blocks[id].parent].inputs, name) = id
ForeverBlocks(blocks) == {id \in DOMAIN blocks : blocks[id].opcode = "control_forever"}

\* C30: in a script in which no `while True:` loop comes after another one,
\* every `while True:` loop yields one control_forever block, and that
\* block is the next of the block before it or the substack of the for /
\* if / else / while block around it, with that block as its parent.
C30_ForeverAttached ==
  phase = "project" /\ NoneAfterForever(ScriptBody) =>
    /\ Cardinality(ForeverBlocks(CatBlocks)) = ForeverLoops(ScriptBody)
    /\ \A id \in ForeverBlocks(CatBlocks) : Attached(CatBlocks, id)

\* What holds: every loop yields its block, and the blocks are attached
\* when no loop is the first statement of a for / if / else / while body.
C30_ForeverAttachedAfterABlock ==
  phase = "project" /\ NoneAfterForever(ScriptBody) =>
    /\ Cardinality(ForeverBlocks(CatBlocks)) = ForeverLoops(ScriptBody)
    /\ ~ForeverLeads(ScriptBody) =>
         \A id \in ForeverBlocks(CatBlocks) : Attached(CatBlocks, id)
====
